------------------------------ MODULE Codebooks ------------------------------
(***************************************************************************)
(* The codes that the kernels choose for a value already divided by its    *)
(* scale: the nearest one, or one of the two around it when rounding is    *)
(* stochastic.  _triton_nvfp4_lora.py and _triton_mx_lora.py (E2M1),       *)
(* _triton_bnb4_lora.py (bitsandbytes' FP4, and NF4 as any sorted book)    *)
(* and _triton_stochastic_quantization.py.  Values are integers: a book    *)
(* times a common denominator.                                             *)
(***************************************************************************)
EXTENDS Integers, Sequences, FiniteSets

Abs(v) == IF v < 0 THEN -v ELSE v
Count(S) == Cardinality(S)

(***************************************************************************)
(* E2M1, in eighths.  A code is three bits of magnitude and a sign.        *)
(***************************************************************************)
E2M1 == <<0, 4, 8, 12, 16, 24, 32, 48>>
E2M1Limit == 48
_e2m1_value(code) == E2M1[(code % 8) + 1]
_decode_fp4(code) == IF code >= 8 THEN -_e2m1_value(code) ELSE _e2m1_value(code)
\* Each limit is half way between two values; an even code takes its own.
E2M1Rises(magnitude) ==
    <<magnitude > 2, magnitude >= 6, magnitude > 10, magnitude >= 14, magnitude > 20, magnitude >= 28, magnitude > 40>>
_encode_fp4(value, negative) ==
    Count({i \in 1 .. 7 : E2M1Rises(Abs(value))[i]}) + (IF negative THEN 8 ELSE 0)
\* The codes a draw can select: next to the nearest one, on the value's side.
_stochastic_e2m1_code(value, negative) ==
    LET nearest == _encode_fp4(value, negative) % 8
        lower == IF _e2m1_value(nearest) > Abs(value) THEN nearest - 1 ELSE nearest
        sign == IF negative THEN 8 ELSE 0
    IN IF Abs(value) > 0 /\ Abs(value) < E2M1Limit /\ Abs(value) > _e2m1_value(lower)
       THEN {lower + sign, lower + 1 + sign}
       ELSE {_encode_fp4(value, negative)}

(***************************************************************************)
(* bitsandbytes' FP4, times 384: levels of magnitude, stored in an order   *)
(* of their own.                                                           *)
(***************************************************************************)
FP4 == <<0, 2, 64, 96, 128, 192, 256, 384>>
FP4Limits == <<1, 33, 80, 112, 160, 224, 320>>
_fp4_level_value(level) == FP4[level + 1]
LevelToStorage(level) == IF level < 2 THEN level ELSE IF level < 4 THEN level + 4 ELSE IF level < 6 THEN level ELSE level - 4
(* MUTANT: a stored code is taken for its level. *)
_fp4_storage_to_levelPlain(code) == code % 8

_fp4_storage_to_level(code) ==
    LET magnitude == code % 8 IN
    CASE magnitude < 2 -> magnitude
      [] magnitude = 6 -> 2
      [] magnitude = 7 -> 3
      [] magnitude = 4 -> 4
      [] magnitude = 5 -> 5
      [] magnitude = 2 -> 6
      [] OTHER -> 7
FP4Code(level, value) == LevelToStorage(level) + (IF value < 0 /\ level # 0 THEN 8 ELSE 0)
_nearest_fp4_code(value) == FP4Code(Count({i \in 1 .. 7 : Abs(value) > FP4Limits[i]}), value)
_stochastic_fp4_code(value) ==
    LET nearest == _fp4_storage_to_level(_nearest_fp4_code(value))
        lower == IF _fp4_level_value(nearest) > Abs(value) THEN nearest - 1 ELSE nearest
    IN IF Abs(value) > 0 /\ Abs(value) < FP4[8] /\ Abs(value) > _fp4_level_value(lower)
       THEN {FP4Code(lower, value), FP4Code(lower + 1, value)}
       ELSE {_nearest_fp4_code(value)}
DecodeFP4(code) ==
    LET magnitude == _fp4_level_value(_fp4_storage_to_level(code)) IN IF code >= 8 THEN -magnitude ELSE magnitude

(***************************************************************************)
(* A sorted book of maxIndex + 1 values, by bisection in a fixed number of *)
(* steps: 4 for the 16 values of NF4, 8 for the 256 of nested scales.      *)
(***************************************************************************)
Bisect[steps \in Nat, book \in Seq(Int), value \in Int, low \in Nat, high \in Nat] ==
    IF steps = 0 THEN low
    ELSE LET middle == (low + high) \div 2 IN
         IF book[middle + 1] < value THEN Bisect[steps - 1, book, value, middle + 1, high]
         ELSE Bisect[steps - 1, book, value, low, middle]
UpperIndex(book, steps, value) == Bisect[steps, book, value, 0, Len(book) - 1]
_nearest_sorted_code(book, steps, value) ==
    LET upper == UpperIndex(book, steps, value)
        lower == IF upper = 0 THEN 0 ELSE upper - 1
    IN IF Abs(value - book[lower + 1]) <= Abs(value - book[upper + 1]) THEN lower ELSE upper
_stochastic_sorted_code(book, steps, value) ==
    LET upper == UpperIndex(book, steps, value) IN
    IF value > book[1] /\ value < book[Len(book)] /\ book[upper + 1] # value
    THEN {upper, upper - 1}
    ELSE {_nearest_sorted_code(book, steps, value)}
=============================================================================
