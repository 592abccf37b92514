------------------------------ MODULE Hashing -------------------------------
(***************************************************************************)
(* Uses of the hash functions.  Each fnv_* call takes the result of an     *)
(* earlier one, so that data can be hashed piece by piece.  The state      *)
(* follows two clients that hash data which differs in at most one place;  *)
(* an action is a call of either for their next pieces, with every         *)
(* function for buffers or for strings.                                    *)
(***************************************************************************)
EXTENDS HashFunctions

CONSTANTS
  Octets,    \* bound: the octets that are hashed, among them 0, the end of a string
  MaxLen,    \* bound: the length of the data
  MaxPiece   \* bound: the length of a piece

Clients == {1, 2}
Kinds == {"32", "32a", "64", "64a"}

VARIABLES
  zero,  \* the data is hashed with FNV-0, whose basis is 0
  data,  \* history: client -> the octets it has hashed
  hval   \* kind -> client -> the result so far

vars == <<zero, data, hval>>
-----------------------------------------------------------------------------
Basis(kind, z) == IF z THEN {} ELSE FNV1_INIT(kind)

Init ==
  /\ zero \in BOOLEAN
  /\ data = [c \in Clients |-> <<>>]
  /\ hval = [kind \in Kinds |-> [c \in Clients |-> Basis(kind, zero)]]

(* The places where the two clients' data differs; client 2 has the larger octet. *)
Places(d) == {i \in DOMAIN d[1] : d[1][i] # d[2][i]}
DifferOnce(d) == \A i, j \in Places(d) : i = j /\ d[1][i] < d[2][i]
Pieces == {p \in BoundedSeq(Octets, MaxPiece) : p # <<>>}

AppendPieces(octets) ==
  LET longer == [c \in Clients |-> data[c] \o octets[c]]
  IN  /\ Len(longer[1]) = Len(longer[2]) /\ Len(longer[1]) <= MaxLen
      /\ DifferOnce(longer)
      /\ data' = longer
      /\ UNCHANGED zero

HashBuf ==
  \E p \in [Clients -> Pieces] :
    /\ AppendPieces(p)
    /\ hval' = [kind \in Kinds |-> [c \in Clients |->
                 CASE kind = "32"  -> fnv_32_buf(p[c], hval[kind][c])
                   [] kind = "32a" -> fnv_32a_buf(p[c], hval[kind][c])
                   [] kind = "64"  -> fnv_64_buf(p[c], hval[kind][c])
                   [] kind = "64a" -> fnv_64a_buf(p[c], hval[kind][c])]]

HashStr ==
  \E p \in [Clients -> Pieces] :
    /\ AppendPieces([c \in Clients |-> String(p[c])])
    /\ hval' = [kind \in Kinds |-> [c \in Clients |->
                 CASE kind = "32"  -> fnv_32_str(p[c], hval[kind][c])
                   [] kind = "32a" -> fnv_32a_str(p[c], hval[kind][c])
                   [] kind = "64"  -> fnv_64_str(p[c], hval[kind][c])
                   [] kind = "64a" -> fnv_64a_str(p[c], hval[kind][c])]]

Next == HashBuf \/ HashStr
Spec == Init /\ [][Next]_vars
-----------------------------------------------------------------------------
(* Properties. *)

(* Hashing with the multiplication that the other branch of the #if compiles. *)
Product(kind, h) == Times(Width(kind), h, FNV_PRIME(kind))
Reference(kind, octets) ==
  FoldLeft(LAMBDA h, octet : IF kind \in {"32", "64"}
                             THEN Xor(Product(kind, h), Word(octet))
                             ELSE Product(kind, Xor(h, Word(octet))),
           Basis(kind, zero), octets)

(* However data is cut into pieces, and whichever pieces are hashed as strings, the
   result is that of hashing it at once with a real multiplication. *)
PiecewiseAgrees ==
  \A kind \in Kinds, c \in Clients : hval[kind][c] = Reference(kind, data[c])

(* Inputs of one length that differ in one octet never collide: not in an FNV hash,
   nor in what hash_fp makes of it before the remainder, nor in murmur_hash_internal,
   whichever group or rest the octet is in.  No fingerprint is 0, the empty slot. *)
OneOctetTells ==
  /\ \A c \in Clients : Fingerprint(hval["32a"][c]) \in 1 .. 255
  /\ data[1] # data[2] =>
    /\ \A kind \in Kinds : hval[kind][1] # hval[kind][2]
    /\ hash_fp(hval["64a"][1]) # hash_fp(hval["64a"][2])
    /\ murmur_hash_internal(data[1], {})
         # murmur_hash_internal(data[2], {})
=============================================================================
