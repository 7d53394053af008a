------------------------------ MODULE Channel ------------------------------
(***************************************************************************)
(* What sync_queue<> promises the threads on its two sides: a closable     *)
(* FIFO.  Values come out in the order they went in, each exactly once,    *)
(* nothing goes in after the close, and a consumer is told that the        *)
(* channel is closed only when the channel is closed and empty.            *)
(***************************************************************************)
EXTENDS Naturals, Sequences

CONSTANTS Batches,    \* the nonempty sequences of values that one call may send
          Consumers

VARIABLES
  sent,       \* every value accepted so far, in order
  received,   \* how many of them have been handed out
  open,       \* not yet closed
  told        \* the consumers that were told the channel is closed

vars == <<sent, received, open, told>>

Init ==
  /\ sent = <<>>
  /\ received = 0
  /\ open = TRUE
  /\ told = {}

Send(batch) ==
  /\ open
  /\ sent' = sent \o batch
  /\ UNCHANGED <<received, open, told>>

Receive ==
  /\ received < Len(sent)
  /\ received' = received + 1
  /\ UNCHANGED <<sent, open, told>>

Close ==
  /\ open
  /\ open' = FALSE
  /\ UNCHANGED <<sent, received, told>>

TellClosed(c) ==
  /\ ~open
  /\ received = Len(sent)
  /\ c \notin told
  /\ told' = told \cup {c}
  /\ UNCHANGED <<sent, received, open>>

Next ==
  \/ \E batch \in Batches : Send(batch)
  \/ Receive
  \/ Close
  \/ \E c \in Consumers : TellClosed(c)

\* Nothing that was accepted stays inside, and after the close every consumer hears of it.
\* When to send and when to close is the clients' affair.
Fairness ==
  /\ WF_vars(Receive)
  /\ \A c \in Consumers : WF_vars(TellClosed(c))

Spec == Init /\ [][Next]_vars /\ Fairness
=============================================================================
