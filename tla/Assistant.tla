----------------------------- MODULE Assistant -----------------------------
(***************************************************************************)
(* assistant/runtime.py over conversations/, tasks/, memory/ and           *)
(* commitments/: a message loads its conversation, reads what the family   *)
(* has, lets the model call the typed tools, each a transaction of its     *)
(* own, and has the history the model returns saved, which raises.         *)
(* Nothing keeps two messages apart.                                       *)
(*                                                                         *)
(* A row is [kind, due, status]: a task (due within the week, as one       *)
(* without a date counts, or later), a fact or a commitment.  The model    *)
(* may call any tool with an id it knows.                                  *)
(***************************************************************************)
EXTENDS Integers, Sequences, FiniteSets, SequencesExt

CONSTANTS
  Messages,           \* messages sent, each once
  MaxConversations,   \* bound: conversations
  MaxFamilyRows,      \* bound: tasks, facts and commitments
  FactLimit           \* the limit of FactRepository.recent

VARIABLES
  message,        \* per message where it is and what it holds
  conversations,  \* the saved history of each conversation, messages in order
  family          \* tasks, facts and commitments in the order they were made

assistantVars == <<message, conversations, family>>

\* knows: the rows in the prompt and from the tools; since: the rows there were
\* when the context was read.
Unsent  == [pc |-> "unsent", conv |-> 0, knows |-> {}, since |-> 0]
Working == {"context", "agent", "save"}

Tasks == {"task"} \X {"week", "later"} \X {"open", "done"}
Rest  == {"fact", "commitment"} \X {"week"} \X {"open"}

AssistantTypeOK ==
  /\ \A m \in Messages :
       /\ message[m].pc \in Working \cup {"unsent", "over", "failed"}
       /\ message[m].conv \in 0 .. Len(conversations)
       /\ message[m].knows \subseteq DOMAIN family
       /\ message[m].since \in 0 .. Len(family)
  /\ \A k \in DOMAIN conversations : conversations[k] \in Seq(Messages)
  /\ \A i \in DOMAIN family :
       <<family[i].kind, family[i].due, family[i].status>> \in Tasks \cup Rest

AssistantInit ==
  /\ message = [m \in Messages |-> Unsent]
  /\ conversations = <<>> /\ family = <<>>

-----------------------------------------------------------------------------
Set(m, s) == message' = [message EXCEPT ![m] = s]

\* The recent(), open() and get_open_tasks() of the services.
Facts       == {i \in DOMAIN family : family[i].kind = "fact"}
Newer(i)    == {j \in Facts : j > i}
\* Mutant: the oldest come first.
OldestFacts == {i \in Facts : Cardinality({j \in Facts : j < i}) < FactLimit}
RecentFacts == {i \in Facts : Cardinality(Newer(i)) < FactLimit}
OpenTasks == {i \in DOMAIN family : /\ family[i].kind = "task" /\ family[i].status = "open"
                                    /\ family[i].due # "later"}
OpenCommitments == {i \in DOMAIN family : family[i].kind = "commitment"}

-----------------------------------------------------------------------------
\* conversations.create: no id came with the message.
Create(m) ==
  /\ message[m].pc = "unsent" /\ Len(conversations) < MaxConversations
  /\ conversations' = Append(conversations, <<>>)
  /\ Set(m, [message[m] EXCEPT !.pc = "context", !.conv = Len(conversations) + 1])
  /\ UNCHANGED <<family>>

\* conversations.load: the sender has the id, though no answer has told it.
Load(m, k) ==
  /\ message[m].pc = "unsent" /\ k \in DOMAIN conversations
  /\ Set(m, [message[m] EXCEPT !.pc = "context", !.conv = k])
  /\ UNCHANGED <<conversations, family>>

\* FamilyContextBuilder.build, which goes into the prompt.
Context(m) ==
  /\ message[m].pc = "context"
  /\ Set(m, [message[m] EXCEPT !.pc = "agent", !.since = Len(family),
                               !.knows = RecentFacts \cup OpenTasks \cup OpenCommitments])
  /\ UNCHANGED <<conversations, family>>

\* create_task, remember_fact and record_commitment.
Make(m, kind, due) ==
  /\ message[m].pc = "agent" /\ Len(family) < MaxFamilyRows
  /\ family' = Append(family, [kind |-> kind, due |-> due, status |-> "open"])
  /\ Set(m, [message[m] EXCEPT !.knows = @ \cup {Len(family) + 1}])
  /\ UNCHANGED <<conversations>>

\* complete_task of a task the model knows.
Complete(m, i) ==
  /\ message[m].pc = "agent" /\ i \in message[m].knows /\ family[i].kind = "task"
  /\ family' = [family EXCEPT ![i].status = "done"]
  /\ UNCHANGED <<message, conversations>>

\* get_open_tasks, or search_family_memory, which finds facts of any age.
LookUp(m, facts) ==
  /\ message[m].pc = "agent"
  /\ Set(m, [message[m] EXCEPT !.knows = @ \cup IF facts
       THEN Facts ELSE OpenTasks])
  /\ UNCHANGED <<conversations, family>>

\* agent.run returns.
Conclude(m) ==
  /\ message[m].pc = "agent"
  /\ Set(m, [message[m] EXCEPT !.pc = "save", !.knows = {}, !.since = 0])
  /\ UNCHANGED <<conversations, family>>

\* The history goes to save_history as all_messages_json() gives it: bytes, and
\* the serializer of a JSONB column raises on bytes.  Nothing is stored, and the
\* request ends in that error; what the tools committed stays.
Save(m) ==
  /\ message[m].pc = "save"
  /\ Set(m, [message[m] EXCEPT !.pc = "over"])
  /\ UNCHANGED <<conversations, family>>

\* No model is configured, the model fails, a tool raises, the pod stops.
Fail(m) ==
  /\ message[m].pc \in Working
  /\ Set(m, [Unsent EXCEPT !.pc = "failed", !.conv = message[m].conv])
  /\ UNCHANGED <<conversations, family>>

AllServed == (\A m \in Messages : message[m].pc \in {"over", "failed"}) /\ UNCHANGED assistantVars

AssistantNext ==
  \/ AllServed
  \/ \E m \in Messages :
       \/ Create(m) \/ Context(m) \/ Conclude(m) \/ Save(m) \/ Fail(m)
       \/ \E k \in DOMAIN conversations : Load(m, k)
       \/ Make(m, "fact", "week") \/ Make(m, "commitment", "week")
       \/ \E due \in {"week", "later"} : Make(m, "task", due)
       \/ \E i \in DOMAIN family : Complete(m, i)
       \/ \E facts \in BOOLEAN : LookUp(m, facts)

AssistantSpec == AssistantInit /\ [][AssistantNext]_assistantVars

-----------------------------------------------------------------------------
\* What a context may leave out: tasks that are done or due after this week, and
\* a fact that FactLimit newer ones have followed.
OutOfSight(i) ==
  LET followers == {j \in DOMAIN family : j > i /\ family[j].kind = "fact"}
  IN  \/ family[i].kind = "task" /\ (family[i].status = "done" \/ family[i].due = "later")
      \/ family[i].kind = "fact" /\ Cardinality(followers) >= FactLimit

\* With no history kept, a message knows what came before it by the family's
\* rows alone: all that other messages had made when it read its context, those
\* that failed half-way included, it knows unless it is out of sight.
AssistantKnows ==
  \A m \in Messages : message[m].pc = "agent" =>
    \A i \in 1 .. message[m].since : i \in message[m].knows \/ OutOfSight(i)

\* Conversations are persisted (README.md, docs/architecture.md): an exchange
\* that the model has concluded is in the history of its conversation.
ExchangesAreKept ==
  \A m \in Messages : message[m].pc = "over" => m \in ToSet(conversations[message[m].conv])
=============================================================================
