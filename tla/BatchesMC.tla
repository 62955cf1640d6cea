----------------------------- MODULE BatchesMC -----------------------------
EXTENDS Batches

(* Two workers send the same content: one from a temporary file, without     *)
(* waiting for the results, and one from a file, with another file after it; *)
(* the first may yield its script again after an error.                      *)
MCProgram ==
  [s1 |-> <<[kind |-> "run", url |-> "u"], [kind |-> "bytes", url |-> "u"], [kind |-> "receive", url |-> "u"]>>,
   s2 |-> <<[kind |-> "file", url |-> "u"], [kind |-> "file", url |-> "v"]>>]
MCScripts == {"s1", "s2"}
MCWaits == {"s2"}
MCYields == [s1 |-> 2, s2 |-> 1]
MCWorker == [s1 |-> "w1", s2 |-> "w2"]
=============================================================================
