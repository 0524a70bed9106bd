----------------------------- MODULE SessionStore -----------------------------
(***************************************************************************)
(* What a storage candidate promises its callers, whatever it does inside:  *)
(* commands take effect one at a time on the current content, a             *)
(* command_operation_id takes effect at most once and names one command for  *)
(* ever, and Ok is returned only for a command whose effect is stored and    *)
(* acknowledged.                                                            *)
(***************************************************************************)
EXTENDS SessionContent

VARIABLES
    content,    \* the canonical tables
    record,     \* applied_authoritative_commands: what each Op has done
    answered    \* the commands some caller has been answered Ok for

storeVars == <<content, record, answered>>

Record == [cmd : Command, acked : BOOLEAN] \cup {None}

StoreTypeOK ==
    /\ content \in Content
    /\ record \in [Op -> Record]
    /\ answered \subseteq Command

Recorded(c) == record[c.op] # None /\ record[c.op].cmd = c

Init ==
    /\ content = CreatedWith
    /\ record = [o \in Op |-> None]
    /\ answered = {}

(* The one transition that changes the content. *)
Perform(c) ==
    /\ record[c.op] = None
    /\ Applicable(content, c)
    /\ Storable(content, c)
    /\ content' = Effect(content, c)
    /\ record' = [record EXCEPT ![c.op] = [cmd |-> c, acked |-> FALSE]]
    /\ UNCHANGED answered

Acknowledge(c) ==
    /\ Recorded(c)
    /\ record' = [record EXCEPT ![c.op].acked = TRUE]
    /\ UNCHANGED <<content, answered>>

Answer(c) ==
    /\ Recorded(c)
    /\ record[c.op].acked
    /\ answered' = answered \cup {c}
    /\ UNCHANGED <<content, record>>

Next == \E c \in Command : Perform(c) \/ Acknowledge(c) \/ Answer(c)

Spec == Init /\ [][Next]_storeVars

-----------------------------------------------------------------------------
AppliedBy(kind) ==
    {c \in Command : c.kind = kind /\ Recorded(c)}

(* The canonical tables hold what the session was created with and the       *)
(* effects of exactly the commands in applied_authoritative_commands: no      *)
(* effect is lost to a whole-table rewrite, none appears without its record.  *)
NothingLost ==
    /\ content.ledger = CreatedWith.ledger \cup {c.item : c \in AppliedBy("append")}
    /\ content.analyses = CreatedWith.analyses \cup {c.item : c \in AppliedBy("attach")}
    /\ content.artifacts =
          CreatedWith.artifacts \ UNION {c.removes : c \in AppliedBy("cleanup")}
    /\ IF AppliedBy("select") = {} THEN content.selection = CreatedWith.selection
       ELSE \E c \in AppliedBy("select") :
               content.selection = [analysis |-> c.item, mark |-> c.mark]

(* Ok was answered only for commands whose effect is stored and acknowledged, *)
(* whatever crashes, takeovers and failed retries came between.              *)
AnsweredIsAcknowledged ==
    \A c \in answered : record[c.op] = [cmd |-> c, acked |-> TRUE]
=============================================================================
