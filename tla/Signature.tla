----------------------------- MODULE Signature ------------------------------
(***************************************************************************)
(* Fingerprints of label sets: model/signature.go and the FNV-1a hash of   *)
(* model/fnv.go.  A bit of a product or of an exclusive or depends on no   *)
(* higher bit, so the low eight bits of the 64-bit hash are computed       *)
(* exactly from the low eight bits of its constants.                       *)
(*                                                                         *)
(* Text[r + 1] are the bytes of the string of rank r (see module Labels);  *)
(* a name that is not in a map has the value 0, "".                        *)
(***************************************************************************)
EXTENDS Labels, SequencesExt

CONSTANT Text

(* Go compares strings byte by byte; a string comes before what it begins. *)
ByteBefore(s, t) ==
  \/ \E k \in DOMAIN s \cap DOMAIN t :
       s[k] < t[k] /\ SubSeq(s, 1, k - 1) = SubSeq(t, 1, k - 1)
  \/ IsStrictPrefix(s, t)

SeparatorByte == 255

(* Strings are UTF-8, in which the separator does not occur.               *)
ASSUME TextAssumption ==
  /\ Text \in Seq(Seq(0 .. SeparatorByte - 1))
  /\ Text[1] = <<>>
  /\ \A i, j \in DOMAIN Text : i < j => ByteBefore(Text[i], Text[j])

(* The low bytes of 14695981039346656037 and 1099511628211.                *)
hashNew == 37
prime64 == 179

Byte == 0 .. 2^8 - 1

(* The exclusive or of two bytes.                                          *)
Xor[x, y \in Byte] ==
  IF x + y = 0 THEN 0 ELSE 2 * Xor[x \div 2, y \div 2] + ((x + y) % 2)

hashAddByte(h, b) == (Xor[h, b] * prime64) % 2^8

hashAdd(h, bytes) == FoldLeft(hashAddByte, h, bytes)

Value(m, ln) == IF ln \in DOMAIN m THEN m[ln] ELSE 0

(* Mutant: nothing tells where a name or a value ends.                     *)
Stream_Joined(m, names) ==
  FlattenSeq([i \in DOMAIN names |->
                Text[names[i] + 1] \o Text[Value(m, names[i]) + 1]])

(* The bytes the loops of signature.go hash for a list of names.           *)
Stream(m, names) ==
  FlattenSeq([i \in DOMAIN names |->
    (Text[names[i] + 1] \o <<SeparatorByte>>)
      \o (Text[Value(m, names[i]) + 1] \o <<SeparatorByte>>)])

(* sort.Sort of names: each has as many before it as are less, or equal    *)
(* and before it already.                                                  *)
PlaceOf(names, k) ==
  Cardinality({n \in DOMAIN names : IF n <= k THEN names[n] <= names[k]
                                             ELSE names[n] < names[k]})

Sorted(names) ==
  [place \in DOMAIN names |-> names[CHOOSE k \in DOMAIN names : PlaceOf(names, k) = place]]

(* LabelsToSignature is the same loop over a map of plain strings.         *)
labelSetToFingerprint(ls) ==
  hashAdd(hashNew, Stream(ls, Sorted(SetToSeq(DOMAIN ls))))

(* One hash for each label, without a separator after the value; the order *)
(* does not matter.                                                        *)
labelSetToFastFingerprint(ls) ==
  IF DOMAIN ls = {} THEN hashNew
  ELSE FoldSet(LAMBDA ln, sum : Xor[sum,
                 hashAdd(hashNew, (Text[ln + 1] \o <<SeparatorByte>>)
                                    \o Text[ls[ln] + 1])],
               0, DOMAIN ls)

(* Mutant: the labels are hashed in the order of the caller.               *)
SignatureForLabels_Unsorted(m, labels) ==
  hashAdd(hashNew, Stream(m, labels))

(* A label that m does not have counts as one with the value "".           *)
SignatureForLabels(m, labels) ==
  hashAdd(hashNew, Stream(m, Sorted(labels)))

SignatureWithoutLabels(m, labels) ==
  hashAdd(hashNew, Stream(m, Sorted(SetToSeq(DOMAIN m \ labels))))
=============================================================================
