-------------------------------- MODULE Gftp --------------------------------
(* The storage provider of the engine: yapapi/storage/gftp.py.  A file is    *)
(* published with an URL given by its content, so several sources may have   *)
(* the same URL; the provider counts them and closes the URL with the last.  *)
(*                                                                           *)
(* The gftp server is a process that answers the requests written to its     *)
(* input, one line each, in their order.  The provider holds a lock of its   *)
(* own over publish and close, the process another over a request and the    *)
(* line read for it.  A request whose caller is cancelled is still answered: *)
(* its line stays in the pipe, and every later request reads the line of the *)
(* one before.                                                               *)
EXTENDS Naturals, FiniteSets, Sequences

CONSTANTS Urls,
          Clients,     \* whoever uploads and releases
          Files,       \* local files: temporary ones are made by upload_stream
          NoClient,    \* a lock is free
          MaxSources   \* bound: sources of an URL

(* What the server answers: to publish the URL, to receive a destination.    *)
Replies == {"destination", "ok", "error"}

ASSUME NoClientAssumption == NoClient \notin Clients
ASSUME UrlsAssumption == Urls \cap Replies = {}
ASSUME MaxSourcesAssumption == MaxSources \in Nat

VARIABLES
  entries,    \* the keys of _published_sources
  count,      \* publish_count of each
  temporary,  \* temporary_files of each
  served,     \* the URLs the gftp server serves
  gftpLock,   \* _lock of the provider: who holds it
  closeUrls,  \* _close_urls: is the server's version, or the variable, for it?
  pipe,       \* _lock of the process: who waits for a line
  unread,     \* lines that nobody waits for
  checksIds   \* does parse_response refuse the response to another request?

gftpVars == <<entries, count, temporary, served, gftpLock, closeUrls, pipe, unread, checksIds>>
pipeVars == <<pipe, unread>>

GftpTypeOK ==
  /\ entries \subseteq Urls /\ served \subseteq Urls
  /\ count \in [Urls -> 0..MaxSources]
  /\ temporary \in [Urls -> SUBSET Files]
  /\ {gftpLock, pipe} \subseteq Clients \cup {NoClient}
  /\ unread \in Seq(Urls \cup Replies)
  /\ {closeUrls, checksIds} \subseteq BOOLEAN

(* __aenter__: the version of the server, or the environment variable.       *)
GftpInit ==
  /\ entries = {} /\ served = {} /\ gftpLock = NoClient
  /\ count = [u \in Urls |-> 0] /\ temporary = [u \in Urls |-> {}]
  /\ closeUrls \in BOOLEAN
  /\ pipe = NoClient /\ unread = <<>> /\ checksIds \in BOOLEAN

----------------------------------------------------------------------------
(* send_message                                                              *)

Request(c) ==
  /\ pipe = NoClient /\ pipe' = c
  /\ UNCHANGED <<entries, count, temporary, served, gftpLock, closeUrls, unread, checksIds>>

(* The line that is read when the server answers `own`, and what is left.    *)
Reply(own) == Head(Append(unread, own))
Read(own) == pipe' = NoClient /\ unread' = Tail(Append(unread, own))

(* An error of the server, or the response to another request.               *)
Refused(own) == Reply(own) = "error" \/ (checksIds /\ unread # <<>>)

(* The caller is cancelled: the line for it stays.                           *)
Abandon(own) == pipe' = NoClient /\ unread' = Append(unread, own)

(* new_destination: a link to a file that is received.                       *)
Received(own) ==
  /\ Read(own)
  /\ UNCHANGED <<entries, count, temporary, served, gftpLock, closeUrls, checksIds>>

----------------------------------------------------------------------------
(* GftpProvider                                                              *)

(* Mutated form: no lock.                                                    *)
MutCanLock(c) == TRUE

CanLock(c) == gftpLock = NoClient

(* upload_file takes the lock and calls publish.                             *)
Publish(c) ==
  /\ CanLock(c) /\ gftpLock' = c
  /\ UNCHANGED <<entries, count, temporary, served, closeUrls, pipeVars, checksIds>>

(* What the server does before it answers `own` to publish.                  *)
ServedAfter(own) == served \cup ({own} \cap Urls)

(* Mutated form: the count of a known URL is not increased.                  *)
MutPublished(u, own, f, temp) ==
  /\ u \in Urls /\ ~Refused(own)
  /\ entries' = entries \cup {u}
  /\ count' = [count EXCEPT ![u] = 1]
  /\ temporary' = [temporary EXCEPT ![u] = IF temp THEN @ \cup {f} ELSE @]
  /\ served' = ServedAfter(own)
  /\ gftpLock' = NoClient /\ Read(own)
  /\ UNCHANGED <<closeUrls, checksIds>>

(* ... the URL in the reply: a new entry, or one more source of a known one. *)
Published(u, own, f, temp) ==
  /\ u \in Urls /\ ~Refused(own)
  /\ count[u] < MaxSources
  /\ entries' = entries \cup {u}
  /\ count' = [count EXCEPT ![u] = IF u \in entries THEN @ + 1 ELSE 1]
  /\ temporary' = [temporary EXCEPT ![u] = IF temp THEN @ \cup {f} ELSE @]
  /\ served' = ServedAfter(own)
  /\ gftpLock' = NoClient /\ Read(own)
  /\ UNCHANGED <<closeUrls, checksIds>>

(* ... or a reply without an URL.                                            *)
PublishFails(own) ==
  /\ Refused(own) \/ Reply(own) \notin Urls
  /\ served' = ServedAfter(own)
  /\ gftpLock' = NoClient /\ Read(own)
  /\ UNCHANGED <<entries, count, temporary, closeUrls, checksIds>>

DeleteEntry(u, from) ==
  /\ entries' = from \ {u}
  /\ temporary' = [temporary EXCEPT ![u] = {}]

IsLastSource(u) == count[u] = 1 /\ closeUrls

(* release_source: one source less; the last one closes the URL, which is a  *)
(* call of the server, unless the server is too old to close anything.       *)
Release(c, u) ==
  /\ CanLock(c) /\ u \in entries
  /\ count' = [count EXCEPT ![u] = @ - 1]
  /\ IF IsLastSource(u)
     THEN gftpLock' = c /\ UNCHANGED <<entries, temporary>>
     ELSE /\ IF count[u] = 1 THEN DeleteEntry(u, entries) ELSE UNCHANGED <<entries, temporary>>
          /\ UNCHANGED gftpLock
  /\ UNCHANGED <<served, closeUrls, pipeVars, checksIds>>

(* ... the reply, whatever it says: the temporary files and the entry go.    *)
Closed(u, own) ==
  /\ ~Refused(own)
  /\ served' = IF own = "ok" THEN served \ {u} ELSE served
  /\ DeleteEntry(u, entries)
  /\ gftpLock' = NoClient /\ Read(own)
  /\ UNCHANGED <<count, closeUrls, checksIds>>

(* Mutated form: the lock is not released.                                   *)
MutCloseFails(u, own) ==
  /\ Refused(own) /\ Read(own)
  /\ UNCHANGED <<entries, count, temporary, served, gftpLock, closeUrls, checksIds>>

(* ... or an error: the entry stays, with no source.                         *)
CloseFails(u, own) ==
  /\ Refused(own)
  /\ served' = IF own = "ok" THEN served \ {u} ELSE served
  /\ gftpLock' = NoClient /\ Read(own)
  /\ UNCHANGED <<entries, count, temporary, closeUrls, checksIds>>

(* A client is cancelled, with or without a request that waits: the server   *)
(* answers `own` some time, and the provider's lock is free.                 *)
Cancelled(c, u, publishing, own) ==
  /\ gftpLock' = IF gftpLock = c THEN NoClient ELSE gftpLock
  /\ IF pipe = c
     THEN /\ Abandon(own)
          /\ served' = IF publishing THEN ServedAfter(own)
                       ELSE IF own = "ok" THEN served \ {u} ELSE served
     ELSE UNCHANGED <<pipeVars, served>>
  /\ UNCHANGED <<entries, count, temporary, closeUrls, checksIds>>
=============================================================================
