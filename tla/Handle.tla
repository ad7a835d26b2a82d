------------------------------- MODULE Handle -------------------------------
(***************************************************************************)
(* holo::handle_definition: a type, an age, a scope and an index packed    *)
(* into the bits of a 64-bit handle.                                       *)
(***************************************************************************)
EXTENDS Bits

CONSTANTS
    Type,    \* the bits of the definition's type
    Age,     \* the widths of the other fields
    Scope,
    Index

ASSUME HandleAssumption ==
    /\ Type \in Byte
    /\ Age \in 0..30 /\ Scope \in 0..30 /\ Index \in 0..30
    /\ Age + Scope + Index <= 56

handle_type_shift == 56
scope_shift == Index
age_shift == Index + Scope

\* Bug: the age is shifted by the width of the scope alone.
EncodeMisplaced(age, scope, index) ==
    UNION { ShiftLeft(Type \cap Bytes(0, 0), handle_type_shift, 64),
            ShiftLeft(age \cap Mask(Age), Scope, 64),
            ShiftLeft(scope \cap Mask(Scope), scope_shift, 64),
            index \cap Mask(Index) }
encode(age, scope, index) ==
    UNION { ShiftLeft(Type \cap Bytes(0, 0), handle_type_shift, 64),
            ShiftLeft(age \cap Mask(Age), age_shift, 64),
            ShiftLeft(scope \cap Mask(Scope), scope_shift, 64),
            index \cap Mask(Index) }

is_type(handle) == ShiftRight(handle, handle_type_shift) \cap Bytes(0, 0) = Type

decode_age(handle) == ShiftRight(handle, age_shift) \cap Mask(Age)
decode_scope(handle) == ShiftRight(handle, scope_shift) \cap Mask(Scope)
decode_index(handle) == handle \cap Mask(Index)
=============================================================================
