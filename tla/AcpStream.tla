------------------------------ MODULE AcpStream ------------------------------
(***************************************************************************)
(* What gather learns from the output of a verifier's backend: one JSON    *)
(* event a line, read after the backend has gone, whole or cut short.      *)
(*                                                                         *)
(* A line is known by its type ("garbled": no JSON object with a type), by *)
(* whether it has the fields its type needs, by the session id it names    *)
(* and by whether its transcript holds an assistant's answer. willRetry    *)
(* and token counts are parsed and read by nobody.                         *)
(***************************************************************************)
EXTENDS Integers, Sequences

NoSid == 0

\* The types that AcpEvent knows, and those that need fields of their own.
Essential == {"session", "agent_start", "turn_start", "message_start",
              "message_end", "agent_end", "compaction"}
Demanding == {"session", "message_start", "message_end", "agent_end"}
\* "turn_end" stands for the types, blank ones too, that are passed over.
LineTypes == Essential \cup {"turn_end", "garbled"}

\* An event, nothing (types that are blank, or not essential), or an error.
ParseEvent(line) ==
  IF line.type = "garbled" \/ (line.type \in Demanding /\ ~line.fields)
    THEN "error"
    ELSE IF line.type \in Essential THEN line.type ELSE "nothing"

\* The lines of a stream that are events of a type. An error in one line
\* leaves the others as they are.
EventsOf(stream, type) == {i \in 1..Len(stream) : ParseEvent(stream[i]) = type}

\* The first session event counts.
ExtractSid(stream) ==
  LET at == EventsOf(stream, "session")
  IN  IF at = {} THEN NoSid
      ELSE stream[CHOOSE i \in at : \A j \in at : i <= j].id

\* The last agent_end with an answer of the assistant's is the final output:
\* here its line, 0 without one.
ExtractFinalOutput(stream) ==
  LET at == {i \in EventsOf(stream, "agent_end") : stream[i].answer}
  IN  IF at = {} THEN 0 ELSE CHOOSE i \in at : \A j \in at : j <= i

ExtractCompactionObserved(stream) == EventsOf(stream, "compaction") # {}
=============================================================================
