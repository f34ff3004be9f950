------------------------------- MODULE OsThread -------------------------------
(***************************************************************************)
(* One OsThread object (src/osthread.h), the thread that calls its member  *)
(* functions and the threads that it starts.  The constructor does not set *)
(* _stopped.  thread_main is the subclass's: it may return at any time and *)
(* does return once it sees _bstop.                                        *)
(*                                                                         *)
(* C++ destroys the part of the subclass before it calls ~OsThread, and    *)
(* from then on thread_main is a pure virtual function of the object.  A   *)
(* thread that is in thread_main goes on with what is left of the object;  *)
(* one that is about to call it aborts the process.                        *)
(***************************************************************************)

CONSTANTS
    Runs,       \* the threads that may be created
    NoThread    \* a handle that is 0

ASSUME ThreadAssumption == NoThread \notin Runs

VARIABLES
    bstop,      \* _bstop
    stopped,    \* _stopped
    joined,     \* _joined
    handle,     \* _hthread
    place,      \* place[t]: where thread t is in SFoo
    caller,     \* what the caller waits in
    gone,       \* the object is destroyed, its part OsThread as well
    restarted,  \* history: start_thread was called on an object with a thread
    unseen      \* history: the destructor took for its thread's a _stopped
                \* that this thread had not written

thrVars == <<bstop, stopped, joined, handle, place, caller, gone, restarted, unseen>>

ThrInit ==
    /\ bstop = TRUE
    /\ stopped \in BOOLEAN
    /\ joined = FALSE
    /\ handle = NoThread
    /\ place = [t \in Runs |-> "none"]
    /\ caller = "idle"
    /\ gone = FALSE
    /\ restarted = FALSE
    /\ unseen = FALSE

MayCall == caller = "idle" /\ ~gone

\* pthread_create may fail and then leaves _hthread.
StartThread ==
    /\ MayCall
    /\ bstop' = FALSE
    /\ restarted' = (restarted \/ handle # NoThread)
    /\ \/ \E t \in Runs :
             /\ place[t] = "none"
             /\ place' = [place EXCEPT ![t] = "born"]
             /\ handle' = t
       \/ UNCHANGED <<place, handle>>
    /\ UNCHANGED <<stopped, joined, caller, gone, unseen>>

SignalToStop ==
    /\ MayCall
    /\ bstop' = TRUE
    /\ UNCHANGED <<stopped, joined, handle, place, caller, gone, restarted, unseen>>

\* A bug to find: _bstop is not set, as in the Windows part (osthread.h:322).
StopUntold ==
    /\ MayCall
    /\ caller' = "stopping"
    /\ UNCHANGED <<bstop, stopped, joined, handle, place, gone, restarted, unseen>>

StopThread ==
    /\ MayCall
    /\ bstop' = TRUE
    /\ caller' = "stopping"
    /\ UNCHANGED <<stopped, joined, handle, place, gone, restarted, unseen>>

TJoin ==
    /\ MayCall
    /\ caller' = "joining"
    /\ UNCHANGED <<bstop, stopped, joined, handle, place, gone, restarted, unseen>>

\* The object is destroyed, beginning with the part of its subclass.
Unmake ==
    /\ MayCall
    /\ caller' = "unmaking"
    /\ UNCHANGED <<bstop, stopped, joined, handle, place, gone, restarted, unseen>>

\* ~OsThread, which stops the thread unless _stopped says that it has ended.
Destruct ==
    /\ caller = "unmaking"
    /\ IF stopped
         THEN gone' = TRUE /\ caller' = "idle" /\ UNCHANGED bstop
         ELSE bstop' = TRUE /\ caller' = "destroying" /\ UNCHANGED gone
    /\ unseen' = (stopped /\ \E t \in Runs : place[t] = "born")
    /\ UNCHANGED <<stopped, joined, handle, place, restarted>>

\* pthread_join is over, or was called before.
JoinOver == joined \/ (handle # NoThread /\ place[handle] = "ended")

JoinReturns ==
    /\ caller \in {"stopping", "joining", "destroying"}
    /\ JoinOver
    /\ joined' = TRUE
    /\ gone' = (caller = "destroying")
    /\ caller' = "idle"
    /\ UNCHANGED <<bstop, stopped, handle, place, restarted, unseen>>

\* pthread_join of a handle that is 0.
JoinCrashes ==
    /\ caller \in {"stopping", "joining", "destroying"}
    /\ ~joined /\ handle = NoThread
    /\ caller' = "crashed"
    /\ UNCHANGED <<bstop, stopped, joined, handle, place, gone, restarted, unseen>>

\* Thread t goes from one place of SFoo to the next.
Proceeds(t, from, to) ==
    /\ caller # "crashed"
    /\ place[t] = from
    /\ place' = [place EXCEPT ![t] = to]
    /\ UNCHANGED <<bstop, joined, handle, caller, gone, restarted, unseen>>

\* A bug to find: SFoo writes _stopped before thread_main only.
BeginsAsEnded(t) == Proceeds(t, "born", "set") /\ stopped' = TRUE

Begins(t) == Proceeds(t, "born", "set") /\ stopped' = FALSE

\* The call of thread_main; in the memory of an object that is gone it may
\* still find the function of the subclass.
CallsMain(t) ==
    /\ caller # "destroying"
    /\ Proceeds(t, "set", "main")
    /\ UNCHANGED stopped

\* The call finds the pure virtual function.
CallsPure(t) ==
    /\ caller = "destroying" \/ (gone /\ caller # "crashed")
    /\ place[t] = "set"
    /\ caller' = "crashed"
    /\ UNCHANGED <<bstop, stopped, joined, handle, place, gone, restarted, unseen>>

MainReturns(t) == Proceeds(t, "main", "left") /\ UNCHANGED stopped

ReturnsWhenTold(t) == bstop /\ MainReturns(t)

Finishes(t) == Proceeds(t, "left", "ended") /\ stopped' = TRUE

\* The process ends, and another one makes an object.
Anew ==
    /\ gone \/ caller = "crashed"
    /\ bstop' = TRUE /\ stopped' \in BOOLEAN /\ joined' = FALSE
    /\ handle' = NoThread
    /\ place' = [t \in Runs |-> "none"]
    /\ caller' = "idle" /\ gone' = FALSE
    /\ restarted' = FALSE /\ unseen' = FALSE

ThrNext ==
    \/ StartThread \/ SignalToStop \/ StopThread \/ TJoin
    \/ Unmake \/ Destruct
    \/ JoinReturns \/ JoinCrashes
    \/ \E t \in Runs :
           Begins(t) \/ CallsMain(t) \/ CallsPure(t) \/ MainReturns(t) \/ Finishes(t)
    \/ Anew

-----------------------------------------------------------------------------

\* The types; the caller waits only in an object that is there, and only what
\* was started is joined.
ThrTypeOK ==
    /\ bstop \in BOOLEAN /\ stopped \in BOOLEAN /\ joined \in BOOLEAN
    /\ handle \in Runs \cup {NoThread}
    /\ place \in [Runs -> {"none", "born", "set", "main", "left", "ended"}]
    /\ caller \in {"idle", "stopping", "joining", "unmaking", "destroying", "crashed"}
    /\ gone \in BOOLEAN /\ restarted \in BOOLEAN /\ unseen \in BOOLEAN
    /\ gone => caller \in {"idle", "crashed"}
    /\ joined => handle # NoThread

\* The part of the subclass is destroyed, or all of the object.
Unmade == gone \/ caller \in {"unmaking", "destroying"}

\* An object whose thread was joined before is destroyed without a thread in
\* it: none is left in thread_main when the subclass goes, and none will call
\* a pure virtual function.  An object whose thread was not joined has no
\* more than this, that the thread has left it when ~OsThread is through, if
\* the process gets there (osthread.h:93-98, osthread.h:146-154,
\* osthread.h:169).  Neither holds of an object that was started a second
\* time, or whose thread had not come as far as to set _stopped when
\* ~OsThread read it.
NoneOutlives ==
    ~restarted /\ ~unseen /\ (gone \/ (Unmade /\ joined))
        => \A t \in Runs : place[t] \in {"none", "ended"}

\* stop_thread and ~OsThread come back, or the process ends for want of a
\* thread to join or by the call of a pure virtual function: nobody clears
\* _bstop while they wait (osthread.h:131, osthread.h:169).
StopReturns == caller \in {"stopping", "destroying"} ~> caller \in {"idle", "crashed"}
=============================================================================
