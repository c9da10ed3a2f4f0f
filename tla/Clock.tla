-------------------------------- MODULE Clock --------------------------------
(***************************************************************************)
(* The clock thread (mk_clock.c).  Once a second it formats the time into  *)
(* the buffer nobody was told about and then publishes it, for the log and *)
(* for the Date header alike.  Nothing but the two buffers protects the    *)
(* threads that hold a published pointer while they build an answer.       *)
(* What a buffer says is abstracted to "empty", "whole" and "torn", that   *)
(* is, being written.                                                      *)
(***************************************************************************)
EXTENDS Integers

VARIABLE clk

Kinds   == {"log", "header"}       \* log_current_time, header_current_time
Buffers == 0 .. 1
NoBuffer == 2                      \* the mk_pointer's data is NULL

ClockTypeOK ==
  clk \in [at : {"off", "sleep", "log", "header"},
           cur : [Kinds -> 0 .. 2],
           text : [Kinds -> [Buffers -> {"empty", "whole", "torn"}]]]

ClockInit ==
  clk = [at |-> "off", cur |-> [k \in Kinds |-> NoBuffer],
         text |-> [k \in Kinds |-> [b \in Buffers |-> "empty"]]]

(* Mutant: the buffer to write is the one that is published.               *)
NextBufferCurrent(k) == IF clk.cur[k] = 0 THEN 0 ELSE 1

(* _next_buffer()                                                          *)
NextBuffer(k) == IF clk.cur[k] = 0 THEN 1 ELSE 0

Tear(k)    == [clk.text EXCEPT ![k][NextBuffer(k)] = "torn"]
Publish(k) == [clk EXCEPT !.text[k][NextBuffer(k)] = "whole", !.cur[k] = NextBuffer(k)]

(* mk_clock_sequential_init() sets both times before the thread exists.    *)
SequentialInit ==
  clk' = [at |-> "sleep", cur |-> [k \in Kinds |-> 0],
          text |-> [k \in Kinds |-> [b \in Buffers |-> IF b = 0 THEN "whole" ELSE "empty"]]]

(* mk_clock_worker_init(): wakes up, log_current_utime moves on and the    *)
(* log's buffer is being written.                                          *)
ClockWakes ==
  /\ clk.at = "sleep"
  /\ clk' = [clk EXCEPT !.at = "log", !.text = Tear("log")]

(* mk_clock_log_set_time() publishes, mk_clock_header_set_time() starts.   *)
ClockSetsLog ==
  /\ clk.at = "log"
  /\ clk' = [Publish("log") EXCEPT !.at = "header",
                                   !.text["header"][NextBuffer("header")] = "torn"]

ClockSetsHeader ==
  /\ clk.at = "header"
  /\ clk' = [Publish("header") EXCEPT !.at = "sleep"]

=============================================================================
