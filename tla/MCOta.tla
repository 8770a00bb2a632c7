-------------------------------- MODULE MCOta --------------------------------
EXTENDS Ota

Command(id, version, url, md5, fields) ==
  [id |-> id, version |-> version, url |-> url, md5 |-> md5, fields |-> fields]

MCImages == [a |-> <<"a1", "a2">>, b |-> <<"b1">>]
MCNumber == [V1 |-> 1, V2 |-> 2, V3 |-> 3]

\* A good command, one for an old version whose image is small, one without md5, and one
\* whose url is empty.
MCCommands ==
  {Command("1", "V2", "a", "a", 4), Command("2", "V1", "b", "b", 4), Command("3", "V3", "b", "b", 3),
   Command("4", "V3", "empty", "b", 4)}
=============================================================================
