---------------------------- MODULE RedisMemory ----------------------------
(***************************************************************************)
(* util.ParseRedisMemConf, which turns an amount of memory in spec.config  *)
(* into the number of bytes CONFIG GET answers, and what redis itself does *)
(* with the same text.                                                     *)
(*                                                                         *)
(* A value of spec.config is a word, <<"yes">>, or a number and its unit   *)
(* in lower case, <<60, "mb">>.  The product is one of signed machine      *)
(* integers, so it wraps.                                                  *)
(***************************************************************************)
EXTENDS Integers

CONSTANTS
    Kilo, Kibi,  \* 1000 and 1024
    Modulus      \* 2^64

ASSUME MemoryAssumption ==
    /\ Kilo \in Nat \ {0} /\ Kibi \in Nat \ {0}
    /\ Modulus \in Nat /\ \E h \in 1 .. Modulus : Modulus = 2 * h

Int64 == -(Modulus \div 2) .. (Modulus \div 2) - 1

Units == {"", "b", "k", "kb", "m", "mb", "g", "gb"}

Amounts == Int64 \X Units

\* What int64 keeps of an exact product.
Wrap(n) == ((n + Modulus \div 2) % Modulus) - Modulus \div 2

\* Faulty variant: kb, mb and gb are taken for k, m and g.
MultiplierDecimal(u) ==
    CASE u \in {"", "b"}  -> 1
      [] u \in {"k", "kb"} -> Kilo
      [] u \in {"m", "mb"} -> Kilo * Kilo
      [] u \in {"g", "gb"} -> Kilo * Kilo * Kilo

Multiplier(u) ==
    CASE u \in {"", "b"} -> 1
      [] u = "k"  -> Kilo
      [] u = "kb" -> Kibi
      [] u = "m"  -> Kilo * Kilo
      [] u = "mb" -> Kibi * Kibi
      [] u = "g"  -> Kilo * Kilo * Kilo
      [] u = "gb" -> Kibi * Kibi * Kibi

\* strconv.ParseInt fails on what is left when the unit is cut off.
ParseFails(v) == v \notin Amounts

ParseRedisMemConf(v) == <<Wrap(v[1] * Multiplier(v[2])), "">>

(***************************************************************************)
(* redis: memtoll has these units, and its product wraps as well.  The     *)
(* parameter then refuses a negative amount, and what is no amount.        *)
(***************************************************************************)
Base(u) == IF u \in {"kb", "mb", "gb"} THEN Kibi ELSE Kilo

\* The base to the power of the unit.
Power(u) ==
    CASE u \in {"", "b"}   -> 1
      [] u \in {"k", "kb"} -> Base(u)
      [] u \in {"m", "mb"} -> Base(u) * Base(u)
      [] u \in {"g", "gb"} -> Base(u) * Base(u) * Base(u)

Memtoll(v) == Wrap(v[1] * Power(v[2]))

RedisRefusesAmount(v) == v \in Amounts => Memtoll(v) < 0
============================================================================
