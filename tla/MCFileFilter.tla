---------------------------- MODULE MCFileFilter ----------------------------
(* Files of up to MaxSize bytes, every limit, offset and set of options; the *)
(* digest that is given is that of any part, of "" or another one.          *)
EXTENDS FileFilter

CONSTANT MaxSize

MCParts ==
  [size : 0 .. MaxSize, limit : 1 .. MaxSize + 1, offset : 0 .. MaxSize + 1]

MCSearchHashes ==
  {Bytes(a, b) : a \in 0 .. MaxSize - 1, b \in 0 .. MaxSize} \cup {OtherDigest}

MCNonEmpty == MCSearchHashes \ {<<>>}

MCOptions ==
  {o \in [sfv : BOOLEAN, verify : BOOLEAN, validate : BOOLEAN,
          wanted : MCSearchHashes \cup {NoDigest}] :
     o.validate = (o.wanted # NoDigest) \/ o.validate = o.verify}
=============================================================================
