-------------------------------- MODULE Iostream --------------------------------
(***************************************************************************)
(* The transport that is fed and drained by hand.  The object is a record; *)
(* an operation returns the record it leaves behind.  The handler of a     *)
(* read starts the next of the reads in plan, if there is one.             *)
(***************************************************************************)
EXTENDS Integers, SequencesExt

\* done: the reads that were completed, each with its error and its bytes.
\* empty_call: a completion has found no handler to call.
connection ==
    [m_reading |-> FALSE, m_len |-> 0, m_bytes_needed |-> 0, m_buf |-> <<>>, handler |-> FALSE,
     plan |-> <<>>, done |-> <<>>, empty_call |-> FALSE,
     m_output_stream |-> "none", m_write_handler |-> FALSE, m_vector_write_handler |-> FALSE,
     m_shutdown_handler |-> FALSE, out |-> <<>>, ec |-> "none"]

register_ostream(t) == [t EXCEPT !.m_output_stream = "good"]
set_write_handler(t) == [t EXCEPT !.m_write_handler = TRUE]
set_vector_write_handler(t) == [t EXCEPT !.m_vector_write_handler = TRUE]
set_shutdown_handler(t) == [t EXCEPT !.m_shutdown_handler = TRUE]

\* A call that cannot start a read calls the handler it was given at once.
Refused(t, error) == [t EXCEPT !.done = Append(@, [ec |-> error, bytes |-> <<>>])]

async_read_at_least(t, num_bytes, len) ==
    IF num_bytes > len THEN Refused(t, "invalid_num_bytes")
    ELSE IF t.m_reading THEN Refused(t, "double_read")
    ELSE IF num_bytes = 0 \/ len = 0 THEN Refused(t, "none")
    ELSE [t EXCEPT !.m_len = len, !.m_bytes_needed = num_bytes, !.m_buf = <<>>, !.handler = TRUE,
                   !.m_reading = TRUE]

\* The handler is taken away before it is called.
complete_read(t, error) ==
    LET stopped == [t EXCEPT !.m_reading = FALSE, !.handler = FALSE]
        told == [stopped EXCEPT !.done = Append(@, [ec |-> error, bytes |-> t.m_buf])]
        next == Head(told.plan)
    IN  IF ~t.handler THEN [stopped EXCEPT !.empty_call = TRUE]
        ELSE IF told.plan = <<>> THEN told
        ELSE async_read_at_least([told EXCEPT !.plan = Tail(@)], next.num_bytes, next.len)

Shorter(m, n) == IF m < n THEN m ELSE n

\* How many bytes are taken, and the object afterwards.
read_some(t, bytes) ==
    LET n == Shorter(Len(bytes), t.m_len - Len(t.m_buf))
        filled == [t EXCEPT !.m_buf = @ \o SubSeq(bytes, 1, n)]
    IN  IF ~t.m_reading THEN [t |-> t, taken |-> 0]
        ELSE [t |-> IF Len(filled.m_buf) >= t.m_bytes_needed THEN complete_read(filled, "none") ELSE filled,
              taken |-> n]

\* Again and again, while something is taken and something is left.
read_all(t, bytes) ==
    LET f[k \in 0..Len(bytes) + 1] ==
            IF k = 0 THEN [t |-> t, taken |-> 0, more |-> TRUE]
            ELSE LET before == f[k - 1]
                     some == read_some(before.t, SubSeq(bytes, before.taken + 1, Len(bytes)))
                     total == before.taken + some.taken
                 IN  IF ~before.more THEN before
                     ELSE [t |-> some.t, taken |-> total, more |-> some.taken # 0 /\ total < Len(bytes)]
    IN  f[Len(bytes) + 1]

eof(t) == IF t.m_reading THEN complete_read(t, "eof") ELSE t
fatal_error(t) == IF t.m_reading THEN complete_read(t, "pass_through") ELSE t

\* operator>>: the stream has bytes, and after them it is at its end or bad.
\* A read of a bad stream completes once for the error, and once more when
\* enough bytes were there all the same.
read(t, bytes, bad) ==
    LET Turn(s) ==
            LET n == Shorter(Len(s.left), s.t.m_len - Len(s.t.m_buf))
                short == n < s.t.m_len - Len(s.t.m_buf)
                filled == [s.t EXCEPT !.m_buf = @ \o SubSeq(s.left, 1, n)]
                failed == IF short /\ bad THEN complete_read(filled, "bad_stream") ELSE filled
                enough == Len(failed.m_buf) >= failed.m_bytes_needed
            IN  IF ~s.good \/ ~s.t.m_reading THEN [s EXCEPT !.good = FALSE]
                ELSE IF n = 0 THEN [s EXCEPT !.good = FALSE]
                ELSE [t |-> IF enough THEN complete_read(failed, "none") ELSE failed,
                      left |-> SubSeq(s.left, n + 1, Len(s.left)), good |-> ~short]
        f[k \in 0..Len(bytes) + 1] ==
            IF k = 0 THEN [t |-> t, left |-> bytes, good |-> TRUE] ELSE Turn(f[k - 1])
    IN  f[Len(bytes) + 1].t

\* One buffer.
async_write(t, buf, fails) ==
    IF t.m_output_stream # "none"
    THEN [t EXCEPT !.out = IF fails THEN @ ELSE @ \o buf, !.ec = IF fails THEN "bad_stream" ELSE "none"]
    ELSE IF t.m_write_handler
    THEN [t EXCEPT !.out = IF fails THEN @ ELSE @ \o buf, !.ec = IF fails THEN "handler" ELSE "none"]
    ELSE [t EXCEPT !.ec = "output_stream_required"]

\* A list of them.  failing: the first whose write fails, 0 when all succeed; a
\* vectored handler takes all or none.
async_write_list(t, bufs, failing) ==
    IF t.m_output_stream = "none" /\ t.m_vector_write_handler
    THEN [t EXCEPT !.out = IF failing = 0 THEN @ \o FlattenSeq(bufs) ELSE @,
                   !.ec = IF failing = 0 THEN "none" ELSE "handler"]
    ELSE FoldLeft(LAMBDA s, i : IF i > 1 /\ s.ec # "none" THEN s ELSE async_write(s, bufs[i], i = failing),
                  [t EXCEPT !.ec = IF t.m_output_stream # "none" \/ t.m_write_handler THEN "none"
                                   ELSE "output_stream_required"],
                  [i \in DOMAIN bufs |-> i])

async_shutdown(t, answer) == [t EXCEPT !.ec = IF t.m_shutdown_handler THEN answer ELSE "none"]
=============================================================================
