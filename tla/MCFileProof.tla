----------------------------- MODULE MCFileProof -----------------------------
(***************************************************************************)
(* Two subcircuits, with a key each or sharing one, as all but a few do    *)
(* from five subcircuits on; both scripts in both builds, run twice.       *)
(***************************************************************************)
EXTENDS FileProof

MCScripts ==
  {s \in [groups   : {<<{1}, {2}>>, <<{1, 2}>>},
          absolute : BOOLEAN, debug : BOOLEAN, clean : BOOLEAN] :
     s.absolute \/ s.groups = <<{1, 2}>>}
=============================================================================
