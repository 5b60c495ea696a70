-------------------------------- MODULE Close --------------------------------
(***************************************************************************)
(* Close codes, and the payload of a close frame: two bytes of code and a  *)
(* reason.                                                                 *)
(***************************************************************************)
EXTENDS Frame, Utf8

protocol_error == 1002
no_status == 1005

reserved(code) == code \in 1016..2999 \/ code = 1004

invalid(code) == code <= 999 \/ code >= 5000 \/ code \in {1005, 1006, 1015}

terminal(code) == code \in {1002, 1007, 1008, 1009, 1011}

\* What prepare_close refuses to send, or "none".
CloseError(code, reason) ==
    IF reserved(code) THEN "reserved_close_code"
    ELSE IF invalid(code) /\ code # no_status THEN "invalid_close_code"
    ELSE IF code = no_status /\ reason # <<>> THEN "reason_requires_code"
    ELSE IF Len(reason) > payload_size_basic - 2 THEN "control_too_big"
    ELSE "none"

ClosePayload(code, reason) ==
    IF code = no_status THEN <<>> ELSE BigEndian(code, 2) \o reason

\* The code, and whether the payload is in order.
extract_code(payload) ==
    CASE Len(payload) = 0 -> [code |-> no_status, ec |-> "none"]
      [] Len(payload) = 1 -> [code |-> protocol_error, ec |-> "bad_close_code"]
      [] Len(payload) > 1 ->
            LET code == Number(SubSeq(payload, 1, 2))
            IN  [code |-> code,
                 ec |-> CASE reserved(code) -> "reserved_close_code"
                          [] invalid(code) /\ ~reserved(code) -> "invalid_close_code"
                          [] OTHER -> "none"]

extract_reason(payload) ==
    LET reason == SubSeq(payload, 3, Len(payload))
    IN  [reason |-> reason, ec |-> IF validate(reason) THEN "none" ELSE "invalid_utf8"]
=============================================================================
