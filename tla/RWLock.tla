------------------------------- MODULE RWLock -------------------------------
(***************************************************************************)
(* What python/fuse/SharedLock.py promises in its class comment: any       *)
(* number of threads hold the lock in shared mode, or one thread holds it  *)
(* in exclusive mode, and an exclusive hold may be passed on to a flush    *)
(* worker without ever being free in between.  How threads wait, wake up   *)
(* or give up is not part of the promise.                                  *)
(***************************************************************************)
CONSTANTS
    Threads,   \* threads that call acquire() and release()
    Workers,   \* flush workers, which take an exclusive hold over by steal()
    NoThread   \* the value of an unowned exclusive lock

VARIABLES
    readers,   \* the threads holding the lock in shared mode
    writer     \* the thread holding it in exclusive mode, or NoThread

rwVars == <<readers, writer>>

RWInit ==
    /\ readers = {}
    /\ writer = NoThread

Share(t) ==
    /\ writer = NoThread
    /\ readers' = readers \cup {t}
    /\ UNCHANGED writer

Unshare(t) ==
    /\ t \in readers
    /\ readers' = readers \ {t}
    /\ UNCHANGED writer

Exclude(t) ==
    /\ writer = NoThread
    /\ readers = {}
    /\ writer' = t
    /\ UNCHANGED readers

PassOn(w) ==
    /\ writer # NoThread
    /\ writer' = w
    /\ UNCHANGED readers

Unexclude ==
    /\ writer # NoThread
    /\ writer' = NoThread
    /\ UNCHANGED readers

RWNext ==
    \/ \E t \in Threads : Share(t) \/ Unshare(t) \/ Exclude(t)
    \/ \E w \in Workers : PassOn(w)
    \/ Unexclude

RWSpec == RWInit /\ [][RWNext]_rwVars
=============================================================================
