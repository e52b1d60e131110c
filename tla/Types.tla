------------------------------- MODULE Types -------------------------------
(***************************************************************************)
(* The types of variables (nstypes): the builders that the keys, member    *)
(* types and dimensions of a type are handed to one at a time, and the     *)
(* bytes a type is stored as beside its variable.  A read of a store that  *)
(* ends early may stop anywhere; what was stored must come back as it was. *)
(* The build with assertions is modelled; the allocators do not run out.   *)
(***************************************************************************)
EXTENDS SequencesExt, FiniteSetsExt, Integers

CONSTANTS Prims,       \* enum prim_t, the values that are used
          LastPrim,    \* CU128
          Keys,        \* names of members, sequences of bytes
          Dims,        \* dimensions of strict arrays
          BuilderCap,  \* keys and types of a kvt_builder, 10
          Junk,        \* what an unset type code may hold
          TypeBytes,   \* size of vp_cursor.tstr_input, 512
          MaxHeld,     \* bound: keys, types and dimensions the builders hold
          MaxBuilt     \* bound: types built in a behaviour

ASSUME TypesAssumption == /\ Prims \subseteq 0..LastPrim /\ LastPrim < 256 /\ Junk \subseteq 0..255
                          /\ \A k \in Keys : k \in Seq(0..255) /\ k # << >>
                          /\ {BuilderCap, TypeBytes, MaxHeld, MaxBuilt} \subseteq Nat

VARIABLES kvb,        \* kvt_builder: the list, klen and tlen
          enb,        \* enum_builder: the list
          sab,        \* sarray_builder: the list of dimensions, and the type
          built,      \* types built so far
          wire,       \* a type, its bytes, and how many of them were read
          got,        \* what the last read gave
          broken,     \* an assertion failed
          said        \* ghost: keys and types handed to kvb, in order

typeVars == <<kvb, enb, sab, built, wire, got, broken, said>>

Prim(p)             == [type |-> "prim", p |-> p]
Pairs(kind, ks, ts) == [type |-> kind, keys |-> ks, types |-> ts]
Enum(ks)            == [type |-> "enum", keys |-> ks]
Array(ds, t)        == [type |-> "sarray", dims |-> ds, t |-> t]
NoType              == [type |-> "none"]

Code(kind) == CASE kind = "prim" -> 0 [] kind = "struct" -> 1 [] kind = "union" -> 2
                [] kind = "enum" -> 3 [] kind = "sarray" -> 4

Ok(v, head)      == [err |-> "ok", v |-> v, head |-> head]
Refused(e, head) == [err |-> e, v |-> NoType, head |-> head]

(***************************************************************************)
(* Validity.  The members of a struct or union are not looked at: their    *)
(* loop follows a return.                                                  *)
(***************************************************************************)
ValidKeys(ks) == ks # << >> /\ (\A i \in DOMAIN ks : ks[i] # << >>) /\ IsInjective(ks)
RECURSIVE type_validate(_)

prim_t_validate(t)   == t.p \in 0..LastPrim
struct_t_validate(t) == ValidKeys(t.keys)
union_t_validate(t)  == ValidKeys(t.keys)
enum_t_validate(t)   == ValidKeys(t.keys)
sarray_t_validate(t) == t.dims # << >> /\ 0 \notin ToSet(t.dims) /\ type_validate(t.t)

type_validate(t) == CASE t.type = "prim"   -> prim_t_validate(t)
                      [] t.type = "struct" -> struct_t_validate(t)
                      [] t.type = "union"  -> union_t_validate(t)
                      [] t.type = "enum"   -> enum_t_validate(t)
                      [] t.type = "sarray" -> sarray_t_validate(t)

(***************************************************************************)
(* Writing.  Every type written is asserted to be valid, members too.      *)
(***************************************************************************)
Bug_HighFirst(n) == <<(n \div 256) % 256, n % 256>>
U16(n)  == <<n % 256, (n \div 256) % 256>>
U32(n)  == U16(n % 65536) \o U16(n \div 65536)
Num(s)  == FoldRight(LAMBDA byte, acc : byte + 256 * acc, s, 0)
Name(k) == U16(Len(k)) \o k
Sum(s)  == FoldLeft(+, 0, s)

RECURSIVE type_get_serial_size(_), type_serialize(_), WritesValid(_)

enum_t_get_serial_size(t)   == 2 + Len(t.keys) * 2 + Sum([i \in DOMAIN t.keys |-> Len(t.keys[i])])
struct_t_get_serial_size(t) == enum_t_get_serial_size(t)
                               + Sum([i \in DOMAIN t.types |-> type_get_serial_size(t.types[i])])
union_t_get_serial_size(t)  == struct_t_get_serial_size(t)
sarray_t_get_serial_size(t) == 2 + 4 * Len(t.dims) + type_get_serial_size(t.t)

type_get_serial_size(t) == 1 + CASE t.type = "prim"   -> 1
                                 [] t.type = "struct" -> struct_t_get_serial_size(t)
                                 [] t.type = "union"  -> union_t_get_serial_size(t)
                                 [] t.type = "enum"   -> enum_t_get_serial_size(t)
                                 [] t.type = "sarray" -> sarray_t_get_serial_size(t)

prim_t_serialize(t)   == <<t.p>>
struct_t_serialize(t) == U16(Len(t.keys)) \o
                         FlattenSeq([i \in DOMAIN t.keys |-> Name(t.keys[i]) \o type_serialize(t.types[i])])
union_t_serialize(t)  == struct_t_serialize(t)
enum_t_serialize(t)   == U16(Len(t.keys)) \o FlattenSeq([i \in DOMAIN t.keys |-> Name(t.keys[i])])
sarray_t_serialize(t) == U16(Len(t.dims)) \o FlattenSeq([i \in DOMAIN t.dims |-> U32(t.dims[i])])
                         \o type_serialize(t.t)

type_serialize(t) == <<Code(t.type)>> \o CASE t.type = "prim"   -> prim_t_serialize(t)
                                           [] t.type = "struct" -> struct_t_serialize(t)
                                           [] t.type = "union"  -> union_t_serialize(t)
                                           [] t.type = "enum"   -> enum_t_serialize(t)
                                           [] t.type = "sarray" -> sarray_t_serialize(t)

WritesValid(t) ==
  /\ type_validate(t)
  /\ t.type = "sarray" => WritesValid(t.t)
  /\ t.type \in {"struct", "union"} => \A i \in DOMAIN t.types : WritesValid(t.types[i])

(***************************************************************************)
(* The builders.  A kvt_builder keeps one list of pairs: the next key and  *)
(* the next type each go into a node that is there or into a new one.      *)
(***************************************************************************)
KvbCreate   == [nodes |-> << >>, klen |-> 0, tlen |-> 0]
Bug_NoBound(b)  == FALSE
KvbAsserts(b) == b.klen > BuilderCap \/ b.tlen > BuilderCap
KeyUsed(b, k) == \E i \in DOMAIN b.nodes : b.nodes[i].key = k

Put(nodes, i, node) == IF i <= Len(nodes) THEN [nodes EXCEPT ![i] = node] ELSE Append(nodes, node)
KeyNode(b, k)  == IF b.klen < Len(b.nodes) THEN [b.nodes[b.klen + 1] EXCEPT !.key = k]
                  ELSE [key |-> k, value |-> Prim(0)]
Bug_NewNode(b, t) == [key |-> << >>, value |-> t]
TypeNode(b, t) == IF b.tlen < Len(b.nodes) THEN [b.nodes[b.tlen + 1] EXCEPT !.value = t]
                  ELSE [key |-> << >>, value |-> t]

AcceptedKey(b, k) ==
  IF KvbAsserts(b) THEN Refused("assert", 0)
  ELSE IF KeyUsed(b, k) THEN Refused("interp", 0)
  ELSE Ok([b EXCEPT !.nodes = Put(@, b.klen + 1, KeyNode(b, k)), !.klen = @ + 1], 0)
AcceptedType(b, t) ==
  IF KvbAsserts(b) THEN Refused("assert", 0)
  ELSE Ok([b EXCEPT !.nodes = Put(@, b.tlen + 1, TypeNode(b, t)), !.tlen = @ + 1], 0)
BuiltPairs(kind, b, head) ==
  IF b.klen = 0 \/ b.klen # b.tlen THEN Refused("interp", head)
  ELSE IF b.klen = 1 THEN Refused("assert", head)
  ELSE Ok(Pairs(kind, [i \in DOMAIN b.nodes |-> b.nodes[i].key],
                      [i \in DOMAIN b.nodes |-> b.nodes[i].value]), head)
BuiltEnum(b) == IF b = << >> THEN Refused("interp", 0) ELSE Ok(Enum(b), 0)
BuiltArray(b) == IF b.t = NoType \/ b.dims = << >> THEN Refused("interp", 0)
                 ELSE Ok(Array(b.dims, b.t), 0)

(***************************************************************************)
(* Reading.  The code of a type that is not there is not noticed: junk is  *)
(* what the unset variable holds.                                          *)
(***************************************************************************)
Has(b, head, n)   == head + n <= Len(b)
At(b, head, n)    == SubSeq(b, head + 1, head + n)
Early(b, head, n) == ~Has(b, head, n)

RECURSIVE type_deserialize(_, _, _), ReadPairs(_, _, _, _, _, _), ReadKeys(_, _, _, _), ReadDims(_, _, _, _)

prim_t_deserialize(b, head) ==
  IF Early(b, head, 1) THEN Refused("corrupt", head)
  ELSE IF b[head + 1] > LastPrim THEN Refused("interp", head + 1)
  ELSE Ok(Prim(b[head + 1]), head + 1)

\* A name at head: its length, then its bytes.
NameAt(b, head) == IF Early(b, head, 2) \/ Early(b, head + 2, Num(At(b, head, 2)))
                   THEN Refused("corrupt", head)
                   ELSE Ok(At(b, head + 2, Num(At(b, head, 2))), head + 2 + Num(At(b, head, 2)))

\* struct_t_deserialize and union_t_deserialize: n more members for builder u.
ReadPairs(kind, b, head, n, u, junk) ==
  IF n = 0 THEN BuiltPairs(kind, u, head)
  ELSE \* a name, its type, then both into the builder
    LET Typed(k)    == IF k.err # "ok" THEN k ELSE type_deserialize(b, k.head, junk)
        Keyed(k, t) == IF t.err # "ok" THEN t ELSE AcceptedKey(u, k.v)
        More(t, a)  == IF a.err # "ok" THEN a ELSE ReadPairs(kind, b, t.head, n - 1, a.v, junk)
        Paired(t, w) == IF w.err # "ok" THEN w ELSE More(t, AcceptedType(w.v, t.v))
        Both(k, t)  == Paired(t, Keyed(k, t))
        Named(k)    == Both(k, Typed(k))
    IN  Named(NameAt(b, head))

\* enum_t_deserialize: n more keys after those in ks.
ReadKeys(b, head, n, ks) ==
  IF n = 0 THEN IF ValidKeys(ks) THEN Ok(Enum(ks), head) ELSE Refused("interp", head)
  ELSE LET Named(k) == IF k.err # "ok" THEN k ELSE ReadKeys(b, k.head, n - 1, Append(ks, k.v))
       IN  Named(NameAt(b, head))

\* sarray_t_deserialize: rank dimensions, then the type of the elements.
ReadDims(b, head, rank, junk) ==
  IF Early(b, head, 4 * rank) THEN Refused("corrupt", head)
  ELSE LET ds      == [i \in 1..rank |-> Num(At(b, head + 4 * (i - 1), 4))]
           Of(t)   == IF t.err # "ok" THEN t
                      ELSE IF 0 \in ToSet(ds) THEN Refused("interp", t.head)
                      ELSE Ok(Array(ds, t.v), t.head)
       IN  Of(type_deserialize(b, head + 4 * rank, junk))

Counted(b, body) == Num(At(b, body, 2))
struct_t_deserialize(b, body, junk) ==
  IF Early(b, body, 2) THEN Refused("corrupt", body)
  ELSE ReadPairs("struct", b, body + 2, Counted(b, body), KvbCreate, junk)
union_t_deserialize(b, body, junk) ==
  IF Early(b, body, 2) THEN Refused("corrupt", body)
  ELSE ReadPairs("union", b, body + 2, Counted(b, body), KvbCreate, junk)
enum_t_deserialize(b, body) ==
  IF Early(b, body, 2) THEN Refused("corrupt", body)
  ELSE ReadKeys(b, body + 2, Counted(b, body), << >>)
sarray_t_deserialize(b, body, junk) ==
  IF Early(b, body, 2) THEN Refused("corrupt", body)
  ELSE ReadDims(b, body + 2, Counted(b, body), junk)

type_deserialize(b, head, junk) ==
  LET code == IF Has(b, head, 1) THEN b[head + 1] ELSE junk
      body == IF Has(b, head, 1) THEN head + 1 ELSE head
  IN CASE code = 0 -> prim_t_deserialize(b, body)
       [] code = 1 -> struct_t_deserialize(b, body, junk)
       [] code = 2 -> union_t_deserialize(b, body, junk)
       [] code = 3 -> enum_t_deserialize(b, body)
       [] code = 4 -> sarray_t_deserialize(b, body, junk)
       [] OTHER    -> Refused("interp", body)

(***************************************************************************)
(* What the compiler and the cursor of the variables do with them.         *)
(***************************************************************************)
SabCreate == [dims |-> << >>, t |-> NoType]
NoWire    == [t |-> NoType, bytes |-> << >>, cut |-> 0]
Ready     == ~broken /\ wire = NoWire
Room      == /\ kvb.klen + kvb.tlen + Len(enb) + Len(sab.dims) < MaxHeld
             /\ Cardinality(built) < MaxBuilt
Members   == {Prim(p) : p \in Prims} \cup built

kvb_accept_key(k) ==
  /\ Ready /\ Room
  /\ LET r == AcceptedKey(kvb, k)
     IN  /\ kvb' = IF r.err = "ok" THEN r.v ELSE kvb
         /\ said' = IF r.err = "ok" THEN [said EXCEPT !.keys = Append(@, k)] ELSE said
         /\ broken' = (r.err = "assert")
  /\ UNCHANGED <<enb, sab, built, wire, got>>

kvb_accept_type(t) ==
  /\ Ready /\ Room
  /\ LET r == AcceptedType(kvb, t)
     IN  /\ kvb' = IF r.err = "ok" THEN r.v ELSE kvb
         /\ said' = IF r.err = "ok" THEN [said EXCEPT !.types = Append(@, t)] ELSE said
         /\ broken' = (r.err = "assert")
  /\ UNCHANGED <<enb, sab, built, wire, got>>

\* The type built joins the others; its builder is not used again.
Finished(r, Again) ==
  /\ Ready /\ Cardinality(built) < MaxBuilt
  /\ broken' = (r.err = "assert")
  /\ IF r.err = "ok" THEN built' = built \cup {r.v} /\ Again
     ELSE UNCHANGED <<built, kvb, enb, sab, said>>
  /\ UNCHANGED <<wire, got>>

NewKvb == /\ kvb' = KvbCreate /\ said' = [keys |-> << >>, types |-> << >>]
          /\ UNCHANGED <<enb, sab>>
kvb_struct_t_build == Finished(BuiltPairs("struct", kvb, 0), NewKvb)
kvb_union_t_build  == Finished(BuiltPairs("union", kvb, 0), NewKvb)

enb_accept_key(k) == /\ Ready /\ Room
                     /\ k \notin ToSet(enb)
                     /\ enb' = Append(enb, k)
                     /\ UNCHANGED <<kvb, sab, built, wire, got, broken, said>>
enb_build         == Finished(BuiltEnum(enb), enb' = << >> /\ UNCHANGED <<kvb, sab, said>>)

sab_accept_dim(d)  == /\ Ready /\ Room
                      /\ sab' = [sab EXCEPT !.dims = Append(@, d)]
                      /\ UNCHANGED <<kvb, enb, built, wire, got, broken, said>>
sab_accept_type(t) == /\ Ready /\ Room /\ sab.t = NoType
                      /\ sab' = [sab EXCEPT !.t = t]
                      /\ UNCHANGED <<kvb, enb, built, wire, got, broken, said>>
sab_build          == Finished(BuiltArray(sab), sab' = SabCreate /\ UNCHANGED <<kvb, enb, said>>)

\* vpc_new stores the bytes of a type, vpc_open reads what there is of them.
\* By then the statement is over and its builders and other types are gone.
Store(t) ==
  /\ Ready
  /\ IF WritesValid(t) /\ type_get_serial_size(t) < TypeBytes
     THEN /\ wire' = [t |-> t, bytes |-> type_serialize(t), cut |-> 0]
          /\ kvb' = KvbCreate /\ enb' = << >> /\ sab' = SabCreate /\ built' = {}
          /\ said' = [keys |-> << >>, types |-> << >>]
          /\ UNCHANGED <<got, broken>>
     ELSE broken' = TRUE /\ UNCHANGED <<kvb, enb, sab, built, wire, got, said>>
Load(n, junk) == /\ wire # NoWire /\ wire.cut = 0
                 /\ wire' = [wire EXCEPT !.cut = n]
                 /\ got' = type_deserialize(SubSeq(wire.bytes, 1, n), 0, junk)
                 /\ UNCHANGED <<kvb, enb, sab, built, broken, said>>

TypesInit == /\ kvb = KvbCreate /\ enb = << >> /\ sab = SabCreate /\ built = {}
             /\ wire = NoWire /\ got = Refused("none", 0) /\ broken = FALSE
             /\ said = [keys |-> << >>, types |-> << >>]
TypesNext ==
  \/ \E k \in Keys : kvb_accept_key(k) \/ enb_accept_key(k)
  \/ \E t \in Members : kvb_accept_type(t) \/ sab_accept_type(t)
  \/ \E d \in Dims : sab_accept_dim(d)
  \/ kvb_struct_t_build \/ kvb_union_t_build \/ enb_build \/ sab_build
  \/ \E t \in built : Store(t)
  \/ \E n \in 1..Len(wire.bytes), junk \in Junk : Load(n, junk)
TypesSpec == TypesInit /\ [][TypesNext]_typeVars

\* The builders hold what they may.
TypesTypeOK == /\ {kvb.klen, kvb.tlen} \subseteq 0..BuilderCap + 1
               /\ Len(kvb.nodes) = Max({kvb.klen, kvb.tlen})
               /\ enb \in Seq(Keys) /\ sab.dims \in Seq(Dims)
               /\ broken \in BOOLEAN /\ wire.bytes \in Seq(0..255)

\* A struct or union has the keys and types that were handed to its builder, each
\* key with the type of its position, in whatever order they came
\* (kvb_accept_key and kvb_accept_type, kvt_builder.c:68-163).
BuilderPairs == LET r == BuiltPairs("struct", kvb, 0)
                IN  r.err = "ok" => r.v = Pairs("struct", said.keys, said.types)

\* A stored type is as long as was asked for, and is read back as it was with no
\* byte left over (type_serialize and type_deserialize, types.c:198-290); of a
\* store that ends early nothing is read as a type.
TypesReadBack ==
  wire.cut > 0 =>
    /\ Len(wire.bytes) = type_get_serial_size(wire.t)
    /\ wire.cut = Len(wire.bytes) => got = Ok(wire.t, wire.cut)
    /\ wire.cut < Len(wire.bytes) => got.err \in {"corrupt", "interp"}
=============================================================================
