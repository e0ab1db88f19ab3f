----------------------------- MODULE MCNodeStore ----------------------------
EXTENDS NodeStore

A == <<"a">>
B == <<"b">>
AF == <<"a", "f">>
BF == <<"b", "f">>
MCNames == {A, B, AF, BF}

Do(do, id, to, kind, overwrite) ==
  [do |-> do, id |-> id, to |-> to, kind |-> kind, addl |-> id = BF, overwrite |-> overwrite]
MCOps ==
  {Do("create", A, NoName, "container", FALSE), Do("create", BF, NoName, "data", FALSE),
   Do("create", AF, NoName, "data", TRUE),      Do("create", B, NoName, "container", FALSE),
   Do("create", B, AF, "link", FALSE),          Do("create", B, B, "link", TRUE),
   Do("create", B, B, "link", FALSE),
   Do("delete", A, NoName, "data", FALSE),      Do("delete", AF, NoName, "data", FALSE),
   Do("delete", B, NoName, "data", FALSE),
   Do("move", AF, B, "data", FALSE),            Do("move", A, B, "data", FALSE),
   Do("move", BF, AF, "data", FALSE),           Do("move", BF, NoName, "data", FALSE),
   Do("copy", A, B, "data", FALSE),             Do("copy", AF, B, "data", FALSE)}

Have(id, kind, target) == [id |-> id, kind |-> kind, target |-> target]
Base == {Have(A, "container", NoName), Have(AF, "data", NoName)}
MCExisting == {Base, Base \cup {Have(B, "container", NoName)}, Base \cup {Have(B, "link", A)}}

Symmetry == Permutations(Requests)
=============================================================================
