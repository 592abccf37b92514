------------------------------ MODULE Helpers -------------------------------
(* What the program computes with rather than stores, in one run: ScalableFilter,
   FilterSize, Hashing, RandBool or ClContext.  They share no state, so the initial state
   chooses one of the five and the others stay where they are. *)
EXTENDS FilterSize

CONSTANTS
  Null, Keys, GivenFilters,  \* of ScalableFilter
  Octets, MaxLen, MaxPiece,  \* of Hashing
  Seeds,                     \* of RandBool
  MaxSize                    \* of ClContext

VARIABLES
  part,
  filters, last, ret, exhausted, scalablePc,                             \* ScalableFilter
  zero, data, hval,                                                      \* Hashing
  gcount, rbits, seed, given,                                            \* RandBool
  gpu, device, handle, program_size, buffer, program, clPc               \* ClContext

S == INSTANCE ScalableFilter WITH pc <- scalablePc
H == INSTANCE Hashing
R == INSTANCE RandBool
C == INSTANCE ClContext WITH pc <- clPc

ASSUME ScalableAssumption ==
  /\ Null \notin S!Filter /\ Null \notin Seq(S!Filter \cup {Null})
  /\ GivenFilters \subseteq Seq(S!Filter) \ {<<>>}

(* An octet is an unsigned char. *)
ASSUME OctetAssumption == Octets \subseteq 0 .. 255 /\ MaxPiece \in Nat

ASSUME SizeAssumption == MaxSize \in Nat

scalableVars == <<filters, last, ret, exhausted, scalablePc>>
hashVars == <<zero, data, hval>>
randVars == <<gcount, rbits, seed, given>>
clVars == <<gpu, device, handle, program_size, buffer, program, clPc>>

(* The others have a fixed state of no meaning. *)
Idle(v) == v = "idle"
IdleHash == Idle(zero) /\ Idle(data) /\ Idle(hval)
IdleRand == Idle(gcount) /\ Idle(rbits) /\ Idle(seed) /\ Idle(given)
IdleCl ==
  /\ Idle(gpu) /\ Idle(device) /\ Idle(handle)
  /\ Idle(program_size) /\ Idle(buffer) /\ Idle(program) /\ Idle(clPc)

HelpersInit ==
  /\ Init /\ S!Init
  /\ \/ part \in {"scalable", "size"} /\ IdleHash /\ IdleRand /\ IdleCl
     \/ part = "hash" /\ H!Init /\ IdleRand /\ IdleCl
     \/ part = "rand" /\ IdleHash /\ R!Init /\ IdleCl
     \/ part = "cl" /\ IdleHash /\ IdleRand /\ C!Init

HelpersNext ==
  /\ UNCHANGED part
  /\ \/ part = "scalable" /\ S!Next /\ UNCHANGED <<vars, hashVars, randVars, clVars>>
     \/ part = "size" /\ Next /\ UNCHANGED <<scalableVars, hashVars, randVars, clVars>>
     \/ part = "hash" /\ H!Next /\ UNCHANGED <<vars, scalableVars, randVars, clVars>>
     \/ part = "rand" /\ R!Next /\ UNCHANGED <<vars, scalableVars, hashVars, clVars>>
     \/ part = "cl" /\ C!Next /\ UNCHANGED <<vars, scalableVars, hashVars, randVars>>

HelpersSpec == HelpersInit /\ [][HelpersNext]_<<part, vars, scalableVars, hashVars, randVars, clVars>>

(* ScalableFilter: what was inserted is found. *)
InsertedIsFound == S!InsertedIsFound

(* ScalableFilter: an insert leaves the filters before the last alone. *)
OthersKept == S!OthersKept

(* ScalableFilter: no insert adds a filter. *)
NeverGrows == S!NeverGrows

(* Hashing: hashing in pieces is hashing at once with a real multiplication. *)
PiecewiseAgrees == part = "hash" => H!PiecewiseAgrees

(* Hashing: inputs that differ in one octet never collide. *)
OneOctetTells == part = "hash" => H!OneOctetTells

(* RandBool: each bit of a tempered word is handed out once. *)
EachBitOnce == part = "rand" => R!EachBitOnce

(* ClContext: only a built program is returned, for the device that was to be found. *)
ReturnsBuilt == part = "cl" => C!ReturnsBuilt
=============================================================================
