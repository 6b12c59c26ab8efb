----------------------------- MODULE TotpEngine -----------------------------
(* The Base32 decoder of totp_engine.c, which fills a buffer of the          *)
(* caller's. A character is its value 0..31, Pad for '=', or Bad for one     *)
(* outside the alphabet.                                                     *)
EXTENDS Naturals, Sequences, SequencesExt

Pad == 32
Bad == 33

(* 2^n, for the shifts and the bits of a byte. *)
Pow2(n) == <<1, 2, 4, 8, 16, 32, 64, 128>>[n + 1]

(* One character. The register is 32 bits wide in C; its lower 31 are kept   *)
(* here (67108864 is 2^26), of which the decoder reads 12 at most.           *)
Shift(s, c) == [s EXCEPT !.buffer = (s.buffer % 67108864) * 32 + c, !.bits = @ + 5]
Emit(s, capacity) ==
    IF Len(s.out) >= capacity THEN [s EXCEPT !.result = "ESP_ERR_INVALID_SIZE"]
    ELSE [s EXCEPT !.bits = @ - 8, !.out = Append(@, (s.buffer \div Pow2(s.bits - 8)) % 256)]

(* Wrong on purpose: a byte is taken one character late.                     *)
ReadLate(s, c, capacity) ==
    IF s.result # "reading" THEN s
    ELSE IF c = Pad THEN [s EXCEPT !.result = "padding"]
    ELSE IF c = Bad THEN [s EXCEPT !.result = "ESP_ERR_INVALID_ARG"]
    ELSE IF Shift(s, c).bits > 8 THEN Emit(Shift(s, c), capacity)
    ELSE Shift(s, c)
Read(s, c, capacity) ==
    IF s.result # "reading" THEN s
    ELSE IF c = Pad THEN [s EXCEPT !.result = "padding"]
    ELSE IF c = Bad THEN [s EXCEPT !.result = "ESP_ERR_INVALID_ARG"]
    ELSE IF Shift(s, c).bits >= 8 THEN Emit(Shift(s, c), capacity)
    ELSE Shift(s, c)

ReadAll(text, capacity) ==
    FoldLeft(LAMBDA s, c : Read(s, c, capacity),
             [buffer |-> 0, bits |-> 0, out |-> <<>>, result |-> "reading"], text)

Base32Decode(text, capacity) ==
    LET s == ReadAll(text, capacity)
    IN [out |-> s.out,
        result |-> IF s.result \notin {"reading", "padding"} THEN s.result
                   ELSE IF s.out = <<>> THEN "ESP_ERR_INVALID_ARG" ELSE "ESP_OK"]
=============================================================================
