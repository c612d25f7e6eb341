--------------------------- MODULE AsyncLifecycle ---------------------------
\* What the asynchronous runtime promises the caller about one operation,
\* without threads, queue or reference counts.  An operation that was
\* accepted for execution is completed, its completion callback runs
\* exactly once, and only then may its memory go.
EXTENDS Naturals

CONSTANT Ops
VARIABLES phase,    \* absent, open, accepted, completed or reclaimed
          notified  \* times the completion callback has run

lifecycleVars == <<phase, notified>>

Init == /\ phase = [o \in Ops |-> "absent"]
        /\ notified = [o \in Ops |-> 0]

Move(o, from, to) == /\ phase[o] \in from
                     /\ phase' = [phase EXCEPT ![o] = to]
                     /\ UNCHANGED notified

Create(o)   == Move(o, {"absent"}, "open")
Accept(o)   == Move(o, {"open"}, "accepted")
Complete(o) == Move(o, {"open", "accepted"}, "completed")

Notify(o) == /\ phase[o] = "completed" /\ notified[o] = 0
             /\ notified' = [notified EXCEPT ![o] = 1]
             /\ UNCHANGED phase

Reclaim(o) == /\ phase[o] = "completed" => notified[o] = 1
              /\ Move(o, {"open", "completed"}, "reclaimed")

Next == \E o \in Ops : \/ Create(o) \/ Accept(o) \/ Complete(o)
                       \/ Notify(o) \/ Reclaim(o)

Spec == Init /\ [][Next]_lifecycleVars

TypeOK == /\ phase \in [Ops -> {"absent", "open", "accepted", "completed", "reclaimed"}]
          /\ notified \in [Ops -> {0, 1}]

\* A callback means the operation was completed before.
NotifiedAfterCompletion ==
    \A o \in Ops : notified[o] = 1 => phase[o] \in {"completed", "reclaimed"}
=============================================================================
