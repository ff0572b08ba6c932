--------------------------------- MODULE Codec ---------------------------------
(***************************************************************************)
(* Encode and Decode of the generated clients: module Wire at every level  *)
(* of a body.                                                              *)
(***************************************************************************)
EXTENDS Wire, SequencesExt

InSomeOrder(names) ==
  FoldSet(LAMBDA name, sequence : Append(sequence, name), <<>>, names)

RECURSIVE Encode(_, _)
Encode(type, v) ==
  Written(type, v, InSomeOrder(Parts(type, v)),
          [x \in Parts(type, v) |-> Encode(Member(type, x), v[x])])

RECURSIVE Decode(_, _)
Decode(type, j) ==
  ReadFrom(type, j, [i \in Items(type, j) |->
                       Decode(ItemType(type, j, i), Item(j, i))])
===============================================================================
