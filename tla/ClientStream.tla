---------------------------- MODULE ClientStream ----------------------------
(***************************************************************************)
(* What a client of a streamed chat completion is promised, whatever goes   *)
(* on upstream: text that only ever grows, then one conclusion that brings  *)
(* all tool calls there are together with the finish reason, then the end   *)
(* marker.  A stream may break off before its end marker, and then says     *)
(* nothing more.  Usage chunks and reasoning are not part of the promise.   *)
(***************************************************************************)
EXTENDS Naturals, Sequences

CONSTANTS
  Symbol,    \* the alphabet of texts
  Reasons,   \* finish reasons
  None       \* no finish reason yet

VARIABLES
  phase,     \* "open", "concluded", "closed" or "aborted"
  text,      \* the assistant text received so far
  calls,     \* whether tool calls were received
  reason     \* the finish reason received, or None

promised == <<phase, text, calls, reason>>

Begin ==
  /\ phase = "open"
  /\ text = << >>
  /\ calls = FALSE
  /\ reason = None

Extends(new, old) ==
  /\ new \in Seq(Symbol)
  /\ Len(old) <= Len(new)
  /\ \A n \in 1..Len(old) : new[n] = old[n]

Speak ==
  /\ phase = "open"
  /\ Extends(text', text)
  /\ UNCHANGED <<phase, calls, reason>>

Conclude ==
  /\ phase = "open"
  /\ phase' \in {"concluded", "closed"}
  /\ Extends(text', text)
  /\ calls' \in BOOLEAN
  /\ reason' \in Reasons
  /\ calls' => reason' = "tool_calls"

Close ==
  /\ phase = "concluded"
  /\ phase' = "closed"
  /\ UNCHANGED <<text, calls, reason>>

Abort ==
  /\ phase \in {"open", "concluded"}
  /\ phase' = "aborted"
  /\ UNCHANGED <<text, calls, reason>>

Continue == Speak \/ Conclude \/ Close \/ Abort

Promise == Begin /\ [][Continue]_promised

=============================================================================
