---------------------------- MODULE MCAlgorithms ----------------------------
(* Calendar and TotpEngine against reference definitions. The input is a     *)
(* date that advances day by day, or a text that grows by characters.        *)
EXTENDS Calendar, TotpEngine

CONSTANTS LastYear,   \* the walk of the calendar ends on 31 December
          MaxLen      \* characters of a text

VARIABLE input

MonthDays(y, m) == IF m = 2 /\ Leap(y) THEN 29 ELSE KDays[m]
Tomorrow(dt) ==
    IF dt.day < MonthDays(dt.year, dt.month) THEN [dt EXCEPT !.day = @ + 1]
    ELSE IF dt.month < 12 THEN [dt EXCEPT !.day = 1, !.month = @ + 1]
    ELSE [year |-> dt.year + 1, month |-> 1, day |-> 1]

Init == input \in
    {[kind |-> "day", days |-> 0, dt |-> [year |-> 1970, month |-> 1, day |-> 1]]}
    \cup {[kind |-> "text", text |-> <<>>, capacity |-> c] : c \in {0, 1, 2, 4, 5}}

NextDay == /\ input.kind = "day" /\ input.dt # [year |-> LastYear, month |-> 12, day |-> 31]
           /\ input' = [input EXCEPT !.days = @ + 1, !.dt = Tomorrow(@)]
(* Every kind of character in the first three, then those that tell the bits.*)
NextChar == /\ input.kind = "text" /\ Len(input.text) < MaxLen
            /\ \E c \in IF Len(input.text) < 3 THEN {0, 1, 16, 21, 31, Pad, Bad} ELSE {10, 19, Pad} :
                   input' = [input EXCEPT !.text = Append(@, c)]
Next == NextDay \/ NextChar
Spec == Init /\ [][Next]_input

-----------------------------------------------------------------------------
(* Day by day the two conversions agree with the calendar and are each       *)
(* other's inverse, across months, leap days and 2000 and 2100               *)
(* (days_from_civil, civil_from_days).                                       *)
DatesAgree == input.kind = "day" =>
    /\ CivilFromDays(input.days) = input.dt
    /\ DaysFromCivil(input.dt.year, input.dt.month, input.dt.day) = input.days

(* A day the device accepts survives the RTC, read back at the next boot,    *)
(* and is accepted again; the day after the last of a month is refused       *)
(* (rtc_write_aligned, rtc_read_regs, time_service_dt_is_valid).             *)
RtcKeepsDate == input.kind = "day" /\ DtIsValid(input.dt) =>
    /\ RtcRead(RtcWrite(input.days)) = input.dt
    /\ DtIsValid([input.dt EXCEPT !.day = @ + 1]) <=> input.dt.day < MonthDays(input.dt.year, input.dt.month)

(* RFC 4648: the bits of the characters before the padding, eight by eight,  *)
(* the last incomplete byte dropped.                                         *)
Before(text) == SelectInSeq(text, LAMBDA c : c = Pad)
Symbols(text) == IF Before(text) = 0 THEN text ELSE SubSeq(text, 1, Before(text) - 1)
Bit(t, k) == (t[k \div 5 + 1] \div Pow2(4 - (k % 5))) % 2
Byte(t, i) == LET B(j) == Bit(t, 8 * (i - 1) + j) * Pow2(7 - j)
              IN B(0) + B(1) + B(2) + B(3) + B(4) + B(5) + B(6) + B(7)

(* The decoder succeeds exactly on texts of the alphabet that give at least  *)
(* one byte and fit, returns RFC 4648's bytes, and never writes past the     *)
(* caller's buffer, in an error either (base32_decode).                      *)
DecodesBits == input.kind = "text" =>
    LET t == Symbols(input.text)
        n == (5 * Len(t)) \div 8
        r == Base32Decode(input.text, input.capacity)
    IN /\ Len(r.out) <= input.capacity
       /\ r.result = "ESP_OK" <=> (\A i \in DOMAIN t : t[i] # Bad) /\ n \in 1 .. input.capacity
       /\ r.result = "ESP_OK" => r.out = [i \in 1 .. n |-> Byte(t, i)]
=============================================================================
