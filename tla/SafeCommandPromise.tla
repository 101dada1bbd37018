------------------------ MODULE SafeCommandPromise ------------------------
(* What the owner of safe device commands promises, without its lifecycle
   objects, locks, records and tasks: the abstract specification of
   SafeDeviceCommands.tla.                                                   *)

CONSTANTS Ops, Entities, None

VARIABLES active,   \* entity -> the operation that may command it
          sent,     \* operations whose physical call was made
          answer,   \* what the client of an operation was told
          receipts  \* operations whose late receipt was published

vars == <<active, sent, answer, receipts>>

Init ==
    /\ active = [e \in Entities |-> None]
    /\ sent = {}
    /\ answer = [o \in Ops |-> "none"]
    /\ receipts = {}

\* An entity is given to one operation at a time.
Take(o, e) ==
    /\ active[e] = None
    /\ active' = [active EXCEPT ![e] = o]
    /\ UNCHANGED <<sent, receipts>>
    /\ UNCHANGED answer \/ answer' = [answer EXCEPT ![o] = "not_sent"]

\* Only the operation that has the entity sends, once, and never after its
\* client was told that nothing was sent.
Send(o) ==
    /\ \E e \in Entities : active[e] = o
    /\ o \notin sent
    /\ answer[o] = "none"
    /\ sent' = sent \union {o}
    /\ UNCHANGED <<active, answer, receipts>>

\* An operation is answered once, and "not_sent" only if nothing was sent.
Tell(o) ==
    /\ answer[o] = "none"
    /\ \E kind \in {"not_sent", "result", "pending", "unknown"} :
         /\ kind = "not_sent" => o \notin sent
         /\ kind \in {"pending", "unknown"} => o \in sent
         /\ answer' = [answer EXCEPT ![o] = kind]
    /\ UNCHANGED <<sent, receipts>>
    /\ \/ UNCHANGED active
       \/ \E e \in Entities : /\ active[e] = o
                              /\ active' = [active EXCEPT ![e] = None]

\* One late receipt of a command that was sent and not answered with its result.
Receipt(o) ==
    /\ o \in sent \ receipts
    /\ answer[o] \in {"none", "pending", "unknown"}
    /\ receipts' = receipts \union {o}
    /\ UNCHANGED <<active, sent, answer>>

Release(e) ==
    /\ active' = [active EXCEPT ![e] = None]
    /\ UNCHANGED <<sent, answer, receipts>>

Restart ==
    /\ active' = [e \in Entities |-> None]
    /\ UNCHANGED <<sent, answer, receipts>>

Next ==
    \/ \E o \in Ops : Send(o) \/ Tell(o) \/ Receipt(o) \/ \E e \in Entities : Take(o, e)
    \/ \E e \in Entities : Release(e)
    \/ Restart

Spec == Init /\ [][Next]_vars
===========================================================================
