---------------------------- MODULE MCConfigStore ----------------------------
(* Two fields, so three versions: documents of each, one that is newer and   *)
(* one that is not valid, as first file and as backup.                      *)
EXTENDS ConfigStore

MCValues == {"a", "b"}

Doc(v, f1, f2) == [version |-> v, fields |-> <<f1, f2>>]

MCBackups ==
  {Doc(1, "missing", "b"), Doc(2, "a", "missing"), Doc(3, "b", "b"),
   Doc(3, "refused", "a"), Doc(4, "a", "a")}

MCFirstFiles ==
  {Doc(1, "missing", "missing"), Doc(3, "a", "b"), Doc(3, "refused", "a"), Doc(4, "a", "a"),
   [version |-> 0, fields |-> <<"missing", "missing">>]}

=============================================================================
