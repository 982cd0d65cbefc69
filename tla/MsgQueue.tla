------------------------------ MODULE MsgQueue ------------------------------
(***************************************************************************)
(* The message queue between the keyboard and mouse interrupts, which run  *)
(* on one processor and do not interrupt each other, and the main loop of  *)
(* the editor, which polls it with get_msg() from another processor.       *)
(* sys_get_msg.c takes no lock: as the build orders the accesses, the      *)
(* producer writes the message and then tail, the consumer compares front  *)
(* with tail, reads the message and then writes front.                     *)
(***************************************************************************)
EXTENDS Naturals, Sequences

CONSTANTS
  KBD_C_QUEUE_LENGTH,
  MaxMsg       \* bound on the number of messages sent

ASSUME QueueAssumption == KBD_C_QUEUE_LENGTH \in Nat \ {0} /\ MaxMsg \in Nat

VARIABLES
  message, front, tail,
  storing,     \* add_kbd_msg(), add_mouse_msg(): messages stored, tail not yet (0 or 1)
  loop,        \* main(): "draw", "next", "wait" (for a first message) or "read"
  back,        \* the loop that the get_msg() in progress belongs to
  dirty,       \* something was handled since the last draw
  sent, got,   \* history: messages sent, and returned by get_msg()
  overrun      \* history: a message was stored over one not yet read

queuevars == <<message, front, tail, storing, loop, back, dirty, sent, got, overrun>>

\* Messages are numbered; 0 is what a released key sends, and is not an event.
QueueInit ==
  /\ message = [i \in 0 .. KBD_C_QUEUE_LENGTH - 1 |-> 0]
  /\ front = 0 /\ tail = 0
  /\ storing = 0
  /\ loop = "wait" /\ back = "wait"
  /\ dirty = FALSE
  /\ sent = <<>> /\ got = <<>> /\ overrun = FALSE

\* Mutant: the index wraps around to 1.
WrapToOne(i) == IF i = KBD_C_QUEUE_LENGTH THEN 1 ELSE i

Wrap(i) == IF i = KBD_C_QUEUE_LENGTH THEN 0 ELSE i

Unread == IF front <= tail THEN tail - front ELSE tail + KBD_C_QUEUE_LENGTH - front

\* add_kbd_msg() and add_mouse_msg().  Nothing tests whether there is room.
Store ==
  /\ storing = 0 /\ Len(sent) < MaxMsg
  /\ \E m \in {0, Len(sent) + 1} :
       /\ message' = [message EXCEPT ![tail] = m]
       /\ sent' = Append(sent, m)
  /\ overrun' = (overrun \/ Unread = KBD_C_QUEUE_LENGTH - 1)
  /\ storing' = 1
  /\ UNCHANGED <<front, tail, loop, back, dirty, got>>

Publish ==
  /\ storing = 1
  /\ tail' = Wrap(tail + 1)
  /\ storing' = 0
  /\ UNCHANGED <<message, front, loop, back, dirty, sent, got, overrun>>

\* What main() does when get_msg() returns nothing: draw, or go on waiting.
AfterNone == IF loop = "next" THEN "draw" ELSE "wait"

\* get_msg() finds the queue empty, or something in it.
Poll ==
  /\ loop \in {"next", "wait"}
  /\ IF front = tail THEN loop' = AfterNone ELSE loop' = "read"
  /\ back' = loop
  /\ UNCHANGED <<message, front, tail, storing, dirty, sent, got, overrun>>

\* get_msg() returns a message.  A 0 counts as none; main() handles the others.
Take ==
  /\ loop = "read"
  /\ got' = Append(got, message[front])
  /\ front' = Wrap(front + 1)
  /\ IF message[front] = 0
     THEN loop' = (IF back = "next" THEN "draw" ELSE "wait") /\ dirty' = dirty
     ELSE loop' = "next" /\ dirty' = TRUE
  /\ UNCHANGED <<message, tail, storing, back, sent, overrun>>

\* draw_BufferManager() and update().
Draw ==
  /\ loop = "draw"
  /\ loop' = "wait"
  /\ dirty' = FALSE
  /\ UNCHANGED <<message, front, tail, storing, back, sent, got, overrun>>

QueueNext == Store \/ Publish \/ Poll \/ Take \/ Draw

QueueSpec == QueueInit /\ [][QueueNext]_queuevars

-----------------------------------------------------------------------------
(* Properties                                                              *)

\* While no message was stored over an unread one, get_msg() returns all
\* messages in the order in which the interrupts queued them, none twice and
\* none before it is complete, without any lock.
FifoUnlessOverrun ==
  ~overrun => /\ \A k \in 1 .. Len(got) : got[k] = sent[k]
              /\ Len(sent) = Len(got) + Unread + storing

\* When main() waits for the next message, what it handled before is on the
\* screen, whatever arrives in between.
ShownWhenWaiting == loop = "wait" => ~dirty

QueueTypeOK ==
  /\ message \in [0 .. KBD_C_QUEUE_LENGTH - 1 -> Nat]
  /\ front \in 0 .. KBD_C_QUEUE_LENGTH - 1 /\ tail \in 0 .. KBD_C_QUEUE_LENGTH - 1
  /\ storing \in {0, 1} /\ dirty \in BOOLEAN /\ overrun \in BOOLEAN
  /\ loop \in {"draw", "next", "wait", "read"} /\ back \in {"next", "wait"}
  /\ sent \in Seq(Nat) /\ got \in Seq(Nat)

\* The slot k places after front.
SlotAt(k) == IF front + k < KBD_C_QUEUE_LENGTH THEN front + k ELSE front + k - KBD_C_QUEUE_LENGTH

\* The invariant that carries both: the ring holds what was sent and not yet
\* returned, and a get_msg() that saw front # tail has a message to return.
QueueInv ==
  /\ QueueTypeOK
  /\ FifoUnlessOverrun
  /\ ~overrun => /\ \A k \in 0 .. Len(sent) - Len(got) - 1 : message[SlotAt(k)] = sent[Len(got) + 1 + k]
                 /\ storing = 1 => Unread < KBD_C_QUEUE_LENGTH - 1
                 /\ loop = "read" => front # tail
  /\ loop = "wait" \/ (loop = "read" /\ back = "wait") => ~dirty

\* The queue without a lock loses nothing while it is not overrun, and what the
\* editor has handled is shown before it waits again.
MessagesHandled == FifoUnlessOverrun /\ ShownWhenWaiting
=============================================================================
