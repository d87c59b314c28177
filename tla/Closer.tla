-------------------------------- MODULE Closer --------------------------------
(***************************************************************************)
(* The registry of closing functions (internal/closer/closer.go).  Add may *)
(* be called at any time, CloseAll by several goroutines.  The body of     *)
(* CloseAll runs once (sync.Once); other callers wait until it has run and *)
(* return nil.  The functions run outside the mutex, so Add goes on while  *)
(* they do.                                                                *)
(***************************************************************************)
EXTENDS Naturals, SequencesExt

CONSTANTS
    Funcs,      \* closing functions; each is added at most once
    Callers     \* goroutines that call CloseAll, once each

VARIABLES
    funcs,      \* closer.funcs
    once,       \* closer.once: new, running or done
    todo,       \* what is left of the functions closeAll has taken
    errs,       \* the functions whose errors the loop has collected
    caller,     \* next step of each caller
    result,     \* the functions whose errors CloseAll has returned
    added,      \* history: the functions, in the order of Add
    early,      \* history: those added before the first CloseAll
    closed,     \* history: the functions that have run, in order
    failed      \* history: those that have returned an error

vars == <<funcs, once, todo, errs, caller, result, added, early, closed, failed>>

Init ==
    /\ funcs = <<>> /\ todo = <<>> /\ added = <<>> /\ closed = <<>>
    /\ once = "new"
    /\ errs = {} /\ early = {} /\ failed = {}
    /\ caller = [k \in Callers |-> "idle"]
    /\ result = [k \in Callers |-> {}]

Goto(k, label) == caller' = [caller EXCEPT ![k] = label]

Called == \E k \in Callers : caller[k] # "idle"

Add(f) ==
    /\ ~Contains(added, f)
    /\ funcs' = Append(funcs, f)
    /\ added' = Append(added, f)
    /\ early' = IF Called THEN early ELSE early \cup {f}
    /\ UNCHANGED <<once, todo, errs, caller, result, closed, failed>>

CloseAll(k) ==
    /\ caller[k] = "idle"
    /\ Goto(k, "once")
    /\ UNCHANGED <<funcs, once, todo, errs, result, added, early, closed, failed>>

\* once.Do: the first caller runs the body ...
RunOnce(k) ==
    /\ caller[k] = "once" /\ once = "new"
    /\ once' = "running"
    /\ Goto(k, "snapshot")
    /\ UNCHANGED <<funcs, todo, errs, result, added, early, closed, failed>>

\* A version of SkipOnce that does not wait for the first caller.
SkipOnceRunning(k) ==
    /\ caller[k] = "once" /\ once # "new"
    /\ Goto(k, "returned")
    /\ UNCHANGED <<funcs, once, todo, errs, result, added, early, closed, failed>>

\* ... the others wait until it has, and return nil.
SkipOnce(k) ==
    /\ caller[k] = "once" /\ once = "done"
    /\ Goto(k, "returned")
    /\ UNCHANGED <<funcs, once, todo, errs, result, added, early, closed, failed>>

\* Under the mutex: the functions are taken out.
Snapshot(k) ==
    /\ caller[k] = "snapshot"
    /\ todo' = funcs /\ funcs' = <<>>
    /\ Goto(k, "close")
    /\ UNCHANGED <<once, errs, result, added, early, closed, failed>>

\* A version of RunFunc that goes through the functions from the first.
RunFuncFirst(k) ==
    /\ caller[k] = "close" /\ todo # <<>>
    /\ todo' = Tail(todo)
    /\ closed' = Append(closed, Head(todo))
    /\ \/ UNCHANGED <<errs, failed>>
       \/ errs' = errs \cup {Head(todo)} /\ failed' = failed \cup {Head(todo)}
    /\ UNCHANGED <<funcs, once, caller, result, added, early>>

\* A version of RunFunc that keeps the last error only.
RunFuncLastError(k) ==
    /\ caller[k] = "close" /\ todo # <<>>
    /\ todo' = Front(todo)
    /\ closed' = Append(closed, Last(todo))
    /\ \/ UNCHANGED <<errs, failed>>
       \/ errs' = {Last(todo)} /\ failed' = failed \cup {Last(todo)}
    /\ UNCHANGED <<funcs, once, caller, result, added, early>>

\* The last function that is left is called; an error does not stop the loop.
RunFunc(k) ==
    /\ caller[k] = "close" /\ todo # <<>>
    /\ todo' = Front(todo)
    /\ closed' = Append(closed, Last(todo))
    /\ \/ UNCHANGED <<errs, failed>>
       \/ errs' = errs \cup {Last(todo)} /\ failed' = failed \cup {Last(todo)}
    /\ UNCHANGED <<funcs, once, caller, result, added, early>>

\* The body is done and its caller returns the joined errors.
Return(k) ==
    /\ caller[k] = "close" /\ todo = <<>>
    /\ once' = "done"
    /\ result' = [result EXCEPT ![k] = errs]
    /\ Goto(k, "returned")
    /\ UNCHANGED <<funcs, todo, errs, added, early, closed, failed>>

Close(k) == RunOnce(k) \/ SkipOnce(k) \/ Snapshot(k) \/ RunFunc(k) \/ Return(k)

Returned ==
    /\ \A k \in Callers : caller[k] = "returned"
    /\ UNCHANGED vars

Next ==
    \/ \E f \in Funcs : Add(f)
    \/ \E k \in Callers : CloseAll(k) \/ Close(k)
    \/ Returned

Spec == Init /\ [][Next]_vars
-----------------------------------------------------------------------------
Position(f) == CHOOSE i \in DOMAIN added : added[i] = f

\* No function runs twice, and a function runs before every one that was
\* added before it: what was built last, on top of the others, is closed
\* first, however Add and several CloseAll interleave.
ClosedInReverse ==
    \A i, j \in DOMAIN closed : i < j => Position(closed[i]) > Position(closed[j])

\* Whichever CloseAll returns, first or last, all that had been added when the
\* first was called is closed by then (sync.Once makes the others wait).
ReturnMeansClosed ==
    (\E k \in Callers : caller[k] = "returned") => \A f \in early : Contains(closed, f)

\* Every failure is reported, to one caller and to one only, although several
\* functions fail and several CloseAll return (errors.Join; result is a local).
FailuresReported ==
    (\E k \in Callers : caller[k] = "returned") =>
        \E k \in Callers : /\ result[k] = failed
                           /\ \A other \in Callers \ {k} : result[other] = {}
=============================================================================
