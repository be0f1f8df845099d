------------------------------- MODULE Layout -------------------------------
(***************************************************************************)
(* Sizes and alignments of types: what the constructors of                 *)
(* src/symbol_table.c store in a type when it is made, and what            *)
(* src/jit_layout.c computes again from the same type.  A type is made     *)
(* from types made before it and never changes its layout afterwards.      *)
(* Field names, calling conventions and the packed flag, which no code     *)
(* sets, are left out; sizes stay far below the width of int.              *)
(***************************************************************************)
EXTENDS Naturals, SequencesExt

CONSTANTS
    Scalars,    \* sequence of the [size, align] of the built-in types
    MaxTypes,   \* how many types a program may make
    MaxParts,   \* how many elements, fields or payloads one has
    Counts      \* lengths of arrays; 0 also stands for an array without length

\* The alignments ket_type_table_init gives: none, and powers of two.
Alignments == {0, 1, 2, 4, 8, 16}

ASSUME LayoutAssumption ==
    /\ MaxTypes \in Nat /\ MaxParts \in Nat /\ Counts \subseteq Nat
    /\ Scalars \in Seq([size : Nat, align : Alignments])

VARIABLE types      \* every type there is, in the order of making

Kinds == {"scalar", "array", "pointer", "tuple", "struct", "enum"}

-----------------------------------------------------------------------------
(* symbol_table.c *)

Larger(a, b) == IF a > b THEN a ELSE b

\* (x + a - 1) & ~(a - 1): the mask is zero when the alignment is.
RoundUp(x, a) == IF a = 0 THEN 0 ELSE ((x + a - 1) \div a) * a

Empty == [size |-> 0, align |-> 1, offsets |-> <<>>]

\* Slip: the field is put where the one before it ended.
PlaceSlip(layout, i) ==
    [size |-> layout.size + types[i].size,
     align |-> Larger(layout.align, types[i].align),
     offsets |-> Append(layout.offsets, layout.size)]

\* One turn of the loops of ket_type_struct and ket_type_tuple.  (A field without
\* a type would be passed over; ty_check_decl gives each field one.)
Place(layout, i) ==
    LET offset == RoundUp(layout.size, types[i].align)
    IN [size |-> offset + types[i].size,
        align |-> Larger(layout.align, types[i].align),
        offsets |-> Append(layout.offsets, offset)]

Closed(layout) == [layout EXCEPT !.size = RoundUp(@, layout.align)]

\* The layout after n turns.
Laid(parts, n) ==
    LET turn[k \in 0..n] == IF k = 0 THEN Empty ELSE Place(turn[k - 1], parts[k])
    IN turn[n]

\* Slip: the loop stops one field early.
LayoutOfSlip(parts) == Closed(Laid(parts, Len(parts) - 1))

LayoutOf(parts) == Closed(Laid(parts, Len(parts)))

Type(kind, parts, count, layout) ==
    [kind |-> kind, parts |-> parts, variants |-> <<>>, count |-> count,
     size |-> layout.size, align |-> layout.align, offsets |-> layout.offsets]

Flat(size, align) == [size |-> size, align |-> align, offsets |-> <<>>]

Payload(parts) ==
    LET sum[k \in 0..Len(parts)] == IF k = 0 THEN 0 ELSE sum[k - 1] + types[parts[k]].size
    IN sum[Len(parts)]

\* ket_type_enum: eight bytes of tag, then the largest payload.
EnumLayout(variants) ==
    LET payloads == {Payload(variants[k]) : k \in DOMAIN variants}
        parts == UNION {Range(variants[k]) : k \in DOMAIN variants}
    IN Flat(8 + Max({8} \cup payloads), Max({8} \cup {types[i].align : i \in parts}))

-----------------------------------------------------------------------------
Indices == DOMAIN types
Some(S) == UNION {[1..n -> S] : n \in 1..MaxParts}

Init == types = [i \in DOMAIN Scalars |->
                    Type("scalar", <<>>, 0, Flat(Scalars[i].size, Scalars[i].align))]

Room == Len(types) < Len(Scalars) + MaxTypes
Make(t) == Room /\ types' = Append(types, t)

\* ket_type_array
MakeArray ==
    \E i \in Indices, n \in Counts :
        Make(Type("array", <<i>>, n, Flat(n * types[i].size, types[i].align)))

\* ket_type_ptr, ket_type_ref, ket_type_fn, ket_type_future
MakePointer == \E i \in Indices : Make(Type("pointer", <<i>>, 0, Flat(8, 8)))

\* ket_type_tuple
MakeTuple ==
    \E parts \in Some(Indices) :
        Make(Type("tuple", parts, 0, Flat(LayoutOf(parts).size, LayoutOf(parts).align)))

\* ket_type_struct
MakeStruct == \E parts \in Some(Indices) : Make(Type("struct", parts, 0, LayoutOf(parts)))

\* ket_type_enum, with two variants; a variant may have no payload
MakeEnum ==
    \E payloads \in Some(Indices) : \E cut \in 0..Len(payloads) :
        LET variants == <<SubSeq(payloads, 1, cut),
                          SubSeq(payloads, cut + 1, Len(payloads))>>
        IN Make([Type("enum", <<>>, 0, EnumLayout(variants)) EXCEPT !.variants = variants])

\* A type named in a declaration: ket_type_get makes a new struct that has no
\* fields, no size and no alignment (parser.c, parse_type_path).
MakeNamed == Make(Type("struct", <<>>, 0, Flat(0, 0)))

Done == ~Room /\ UNCHANGED types

Next ==
    \/ MakeArray \/ MakePointer \/ MakeTuple \/ MakeStruct \/ MakeEnum \/ MakeNamed
    \/ Done

Spec == Init /\ [][Next]_types

-----------------------------------------------------------------------------
(* jit_layout.c *)

\* One field more, and n fields, of jit_calculate_struct_layout
JitField(l, f) == [size |-> RoundUp(l.size, f.align) + f.size, align |-> Larger(l.align, f.align)]

JitFields(layouts, n) ==
    LET turn[k \in 0..n] == IF k = 0 THEN [size |-> 0, align |-> 1]
                            ELSE JitField(turn[k - 1], layouts[k])
    IN turn[n]

\* Slip: a struct is not padded at its end.
JitStructSlip(layouts) == JitFields(layouts, Len(layouts))

\* jit_calculate_struct_layout, of the layouts of the fields
JitStruct(layouts) ==
    LET open == JitFields(layouts, Len(layouts))
    IN [open EXCEPT !.size = RoundUp(@, open.align)]

\* the tuple cases of jit_type_size and jit_type_align: no padding
JitTuple(layouts) ==
    FoldLeft(LAMBDA l, f : [size |-> l.size + f.size, align |-> Larger(l.align, f.align)],
             [size |-> 0, align |-> 1], layouts)

\* jit_calculate_enum_layout, of the layouts of the payloads of each variant
JitEnum(variants) ==
    LET payload == FoldLeft(LAMBDA l, v : [size |-> Larger(l.size, JitTuple(v).size),
                                           align |-> Larger(l.align, JitTuple(v).align)],
                            [size |-> 0, align |-> 1], variants)
        align == Larger(8, payload.align)
    IN [size |-> RoundUp(RoundUp(8, payload.align) + payload.size, align),
        align |-> align]

\* jit_type_size and jit_type_align of the i-th type
Jit[i \in Indices] ==
    LET t == types[i]
        Of(parts) == [k \in DOMAIN parts |-> Jit[parts[k]]]
    IN CASE t.kind = "scalar" -> [size |-> t.size, align |-> Larger(1, t.align)]
         [] t.kind = "pointer" -> [size |-> 8, align |-> 8]
         [] t.kind = "array" ->
                [size |-> IF t.count > 0 THEN Jit[t.parts[1]].size * t.count ELSE 8,
                 align |-> Jit[t.parts[1]].align]
         [] t.kind = "tuple" -> JitTuple(Of(t.parts))
         [] t.kind = "struct" -> JitStruct(Of(t.parts))
         [] t.kind = "enum" -> JitEnum([k \in DOMAIN t.variants |-> Of(t.variants[k])])

-----------------------------------------------------------------------------
(* Properties *)

\* Types have a size and an alignment, are made of types before them, and
\* only a struct of the type table knows the offsets of its fields.
TypeOK ==
    \A i \in Indices :
        LET t == types[i]
        IN /\ t.kind \in Kinds /\ t.size \in Nat /\ t.align \in Nat /\ t.count \in Nat
           /\ t.parts \in Seq(1..(i - 1)) /\ t.variants \in Seq(Seq(1..(i - 1)))
           /\ t.offsets \in Seq(Nat)
           /\ t.kind = "struct" => Len(t.offsets) = Len(t.parts)

\* No part of the type, however deep, is the empty type, a type known by
\* name only, or of one of the kinds excluded.
MadeWithout(kinds) ==
    LET made[i \in Indices] ==
            /\ types[i].align > 0 /\ types[i].kind \notin kinds
            /\ \A k \in DOMAIN types[i].parts : made[types[i].parts[k]]
            /\ \A v \in Range(types[i].variants) : \A k \in DOMAIN v : made[v[k]]
    IN made

\* The fields of a struct whose types have an alignment each have bytes of
\* their own inside the struct, start at a multiple of their alignment, and
\* do so in every element of an array of the struct (ket_type_struct).
FieldsApart ==
    \A i \in Indices :
        LET t == types[i]
            end(k) == t.offsets[k] + types[t.parts[k]].size
        IN (t.kind = "struct" /\ MadeWithout({})[i]) =>
              /\ t.size % t.align = 0
              /\ \A k \in DOMAIN t.parts :
                    /\ t.offsets[k] % types[t.parts[k]].align = 0
                    /\ t.align % types[t.parts[k]].align = 0
                    /\ end(k) <= t.size
                    /\ \A l \in DOMAIN t.parts : k < l => end(k) <= t.offsets[l]

\* The two computations of size and alignment give the same for every type
\* made of scalars, pointers, structs and arrays with a length; for tuples,
\* enums, slices, void and types known by name they differ.
LayoutsAgree ==
    \A i \in Indices :
        (MadeWithout({"tuple", "enum"})[i] /\ (\A j \in 1..i : types[j].kind = "array" => types[j].count > 0)) =>
            Jit[i] = [size |-> types[i].size, align |-> types[i].align]
=============================================================================
