----------------------------- MODULE LastError -----------------------------
(***************************************************************************)
(* The two copies of a guest's last error: WinApiState.last_error, which   *)
(* the handlers set, and the TEB word that the in-guest GetLastError and   *)
(* SetLastError stubs load and store without a host stop.  The session     *)
(* reads the TEB before a dispatch of the primary thread and writes it     *)
(* after, unless the value is the one it wrote last                        *)
(* (last_published_last_error).  worker_main does neither.                 *)
(***************************************************************************)
EXTENDS Naturals

CONSTANTS
  Threaded,    \* the guest has threads other than the primary
  Errors,      \* error codes; 0 is success
  None,        \* nothing was published yet
  MaxDepth     \* bound: nested callbacks and continuations

ASSUME ErrorAssumption ==
  0 \in Errors /\ None \notin Errors /\ MaxDepth \in Nat /\ Threaded \in BOOLEAN

VARIABLES
  host,        \* WinApiState.last_error
  teb,         \* the TEB word
  published,   \* last_published_last_error
  expect,      \* what the primary's last call or SetLastError left
  depth,       \* callbacks and continuations that have not returned
  touched      \* a copy was changed behind the cache since it was written

errorVars == <<host, teb, published, expect, depth, touched>>

ErrorInit ==
  /\ host = 0 /\ teb = 0 /\ expect = 0
  /\ published = None
  /\ depth = 0
  /\ touched = FALSE

\* Faulty: a handler's error is not written to the TEB.
Publishes_Never(err) == FALSE

\* The write is skipped when the value is the one written last.
Publishes(err) == published # err

Publish(err) ==
  /\ host' = err
  /\ teb' = IF Publishes(err) THEN err ELSE teb
  /\ published' = IF Publishes(err) THEN err ELSE published

\* A dispatch of the primary whose handler sets the error.
DispatchSets(err) ==
  /\ Publish(err)
  /\ expect' = err
  /\ touched' = (touched /\ ~Publishes(err))
  /\ UNCHANGED depth

\* What a handler that sets no error leaves: the TEB's value, read before.
Kept == teb

\* A dispatch of the primary whose handler sets no error.
DispatchKeeps == Publish(Kept) /\ UNCHANGED <<expect, depth, touched>>

\* MultiByteToWideChar, and a call that parks: the TEB was read, nothing is
\* published.
DispatchUnpublished ==
  /\ host' = Kept
  /\ UNCHANGED <<teb, published, expect, depth, touched>>

\* The same for a dispatch that makes the guest run a callback or an SEH
\* funclet first.
CallGuest ==
  /\ depth < MaxDepth
  /\ depth' = depth + 1
  /\ host' = Kept
  /\ UNCHANGED <<teb, published, expect, touched>>

\* The callback or funclet returns: the host's copy is published without a
\* look at the TEB.
Continuation ==
  /\ depth > 0
  /\ depth' = depth - 1
  /\ Publish(host)
  /\ UNCHANGED <<expect, touched>>

\* The primary's SetLastError stub.
SetLastError(err) ==
  /\ teb' = err
  /\ expect' = err
  /\ touched' = TRUE
  /\ UNCHANGED <<host, published, depth>>

\* A worker's handler sets the error; a worker's stub stores into the same
\* TEB word.
WorkerTouches(err) ==
  /\ \/ host' = err /\ UNCHANGED teb
     \/ teb' = err /\ UNCHANGED host
  /\ touched' = TRUE
  /\ UNCHANGED <<published, expect, depth>>

ErrorNext ==
  \/ \E err \in Errors : DispatchSets(err) \/ SetLastError(err)
  \/ \E err \in Errors : Threaded /\ WorkerTouches(err)
  \/ DispatchKeeps \/ DispatchUnpublished \/ CallGuest \/ Continuation

ErrorSpec == ErrorInit /\ [][ErrorNext]_errorVars

---------------------------------------------------------------------------
(* Properties *)

\* As long as nobody stored into the TEB or into the host's copy behind the
\* cache, the GetLastError stub returns what the primary's last call left,
\* over calls that set an error, calls that keep it and continuations.
CoherentUntouched == ~touched => teb = expect

\* What publish_last_error_to_guest promises ("so in-guest GetLastError stubs
\* stay coherent with host-side API failures").
Coherent == teb = expect
=============================================================================
