------------------------------- MODULE MCTabs -------------------------------
(* Three connections of which only the first has a directory "p", so mirroring prompts. *)
EXTENDS Tabs
MCLocalDirs == {<<>>, <<"p">>}
MCRemoteDirs == << {<<"h">>, <<"h", "p">>}, {<<"h">>}, {<<"h">>} >>
MCHome == <<"h">>
MCSite == {[remoteDir |-> Null, localDir |-> Null, sync |-> TRUE],
           [remoteDir |-> <<"p">>, localDir |-> <<"p">>, sync |-> TRUE]}
=============================================================================
