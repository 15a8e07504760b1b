----------------------------- MODULE Durations ------------------------------
(***************************************************************************)
(* Duration of model/time.go, in a configuration that is read and written  *)
(* back any number of times: ParseDuration and String between a text, a    *)
(* number and its unit, and an integer of nanoseconds that wraps around.   *)
(* Factor is the length of each unit in milliseconds; the sizes are        *)
(* parameters so that a small integer overflows where int64 does.          *)
(***************************************************************************)
EXTENDS Lowest, Sequences

CONSTANTS MaxInt,       \* the largest int64, 2^63 - 1
          Millisecond,  \* nanoseconds in one
          Factor,       \* [unit -> milliseconds]
          Texts         \* the durations users write: [n, unit]

Units == <<"y", "w", "d", "h", "m", "s", "ms">>

ASSUME DurationAssumption ==
  /\ MaxInt \in Nat \ {0} /\ Millisecond \in Nat \ {0}
  /\ Factor \in [{Units[i] : i \in DOMAIN Units} -> Nat \ {0}]
  /\ Factor["ms"] = 1
  /\ Texts \subseteq [n : Nat, unit : DOMAIN Factor]

VARIABLES text,  \* the duration as the configuration has it
          dur,   \* the Duration read from it, in nanoseconds
          step   \* "text", "value" or "refused": what there is now

durVars == <<text, dur, step>>

DurInit ==
  /\ text \in Texts
  /\ dur = 0
  /\ step = "text"

-----------------------------------------------------------------------------
Wrap(x) == ((x + MaxInt + 1) % (2 * (MaxInt + 1))) - MaxInt - 1

(* Go's division and remainder round towards zero.                         *)
Quot(x, y) == IF x < 0 THEN -((-x) \div y) ELSE x \div y
Divides(y, x) == (IF x < 0 THEN -x ELSE x) % y = 0

(* Atoi answers a number too large with the largest one; the error that    *)
(* says so is dropped.                                                     *)
Atoi(n) == IF n > MaxInt THEN MaxInt ELSE n

(* durationRE has no sign.                                                 *)
Matches(t) == t.n >= 0

ParseDuration(t) == Wrap(Wrap(Atoi(t.n) * Millisecond) * Factor[t.unit])

(* Mutant: the largest unit the duration reaches, which cuts off the rest. *)
DurationString_Largest(d) ==
  LET ms   == Quot(d, Millisecond)
      fits == {i \in DOMAIN Units : Factor[Units[i]] <= ms}
      unit == IF fits = {} THEN "ms"
              ELSE Units[Lowest(fits)]
  IN IF ms = 0 THEN [n |-> 0, unit |-> "s"]
     ELSE [n |-> Quot(ms, Factor[unit]), unit |-> unit]

(* The first of the units that divides it.                                 *)
DurationString(d) ==
  LET ms   == Quot(d, Millisecond)
      fits == {i \in DOMAIN Units : Divides(Factor[Units[i]], ms)}
      unit == Units[Lowest(fits)]
  IN IF ms = 0 THEN [n |-> 0, unit |-> "s"]
     ELSE [n |-> Quot(ms, Factor[unit]), unit |-> unit]

(* ~Matches is the error; the Duration keeps what it was.                  *)
UnmarshalYAML ==
  /\ step = "text"
  /\ IF Matches(text) THEN dur' = ParseDuration(text) /\ step' = "value"
                      ELSE dur' = dur /\ step' = "refused"
  /\ UNCHANGED text

MarshalYAML ==
  /\ step = "value"
  /\ text' = DurationString(dur)
  /\ step' = "text"
  /\ UNCHANGED dur

DurNext == UnmarshalYAML \/ MarshalYAML

DurSpec == DurInit /\ [][DurNext]_durVars

-----------------------------------------------------------------------------
DurTypeOK ==
  /\ text \in [n : Int, unit : DOMAIN Factor]
  /\ dur \in -(MaxInt + 1) .. MaxInt
  /\ step \in {"text", "value", "refused"}

(* A duration of whole milliseconds that was read is the same after every  *)
(* later writing and reading, and none of them is refused: String and      *)
(* ParseDuration agree on the units.  What overflowed may change, or be    *)
(* written with a sign that durationRE refuses.                            *)
DurationKept ==
  [][dur > 0 /\ Divides(Millisecond, dur)
       => dur' = dur /\ step' # "refused"]_durVars
=============================================================================
