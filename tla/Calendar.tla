------------------------------ MODULE Calendar ------------------------------
(* The calendar of time_service.c: days since 1970-01-01 to dates and back,  *)
(* the dates the device accepts, and the seven registers of the RTC.         *)
EXTENDS Integers

(* Wrong on purpose: every fourth year of an era is a leap year.             *)
DaysFromCivilJulian(y, m, d) ==
    LET year == IF m <= 2 THEN y - 1 ELSE y
        yoe == year % 400
        doy == (153 * (IF m > 2 THEN m - 3 ELSE m + 9) + 2) \div 5 + d - 1
    IN (year \div 400) * 146097 + yoe * 365 + yoe \div 4 + doy - 719468

(* \div rounds down, as the code's correction of negative years makes C's    *)
(* division do.                                                              *)
DaysFromCivil(y, m, d) ==
    LET year == IF m <= 2 THEN y - 1 ELSE y     \* years begin in March
        yoe == year % 400
        doy == (153 * (IF m > 2 THEN m - 3 ELSE m + 9) + 2) \div 5 + d - 1
        doe == yoe * 365 + yoe \div 4 - yoe \div 100 + doy
    IN (year \div 400) * 146097 + doe - 719468

CivilFromDays(days) ==
    LET z == days + 719468
        doe == z % 146097
        yoe == (doe - doe \div 1460 + doe \div 36524 - doe \div 146096) \div 365
        doy == doe - (365 * yoe + yoe \div 4 - yoe \div 100)
        mp == (5 * doy + 2) \div 153
        month == IF mp < 10 THEN mp + 3 ELSE mp - 9
    IN [year |-> yoe + 400 * (z \div 146097) + (IF month <= 2 THEN 1 ELSE 0),
        month |-> month,
        day |-> doy - (153 * mp + 2) \div 5 + 1]

KDays == <<31, 28, 31, 30, 31, 30, 31, 31, 30, 31, 30, 31>>
Leap(y) == (y % 4 = 0 /\ y % 100 # 0) \/ y % 400 = 0
DtIsValid(dt) ==
    /\ dt.year \in 2024 .. 2099 /\ dt.month \in 1 .. 12
    /\ dt.day \in 1 .. (IF dt.month = 2 /\ Leap(dt.year) THEN 29 ELSE KDays[dt.month])

ToBcd(v) == (v \div 10) * 16 + (v % 10)
FromBcd(v) == (v \div 16) * 10 + (v % 16)
(* The date registers rtc_write_aligned writes, and rtc_read_regs' reading.  *)
Weekday(days) == (days + 4) % 7
RtcWrite(days) == LET dt == CivilFromDays(days)
                  IN [day |-> ToBcd(dt.day), weekday |-> ToBcd(Weekday(days)),
                      month |-> ToBcd(dt.month), year |-> ToBcd(dt.year - 2000)]

(* Wrong on purpose: the month's tens are masked away with the century bit.  *)
RtcReadMonthShort(r) == [year |-> 2000 + FromBcd(r.year),
                         month |-> FromBcd(r.month % 16), day |-> FromBcd(r.day % 64)]
RtcRead(r) == [year |-> 2000 + FromBcd(r.year),
               month |-> FromBcd(r.month % 32), day |-> FromBcd(r.day % 64)]
=============================================================================
