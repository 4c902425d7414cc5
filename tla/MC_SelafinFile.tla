-------------------------- MODULE MC_SelafinFile ---------------------------
(* Small instances of SelafinFile.  "h" is read as given, and the vector   *)
(* "h" under another name; "H" as "h"; "long" is too long for a vector:    *)
(* both its components are cut to one name.                                *)
EXTENDS SelafinFile

MCReadAs ==
    [v \in Names \X Parts |->
        CASE v[2] = "s" /\ v[1] = "H"     -> <<"h", "s">>
          [] v[2] # "s" /\ v[1] = "h"     -> <<"h vector", v[2]>>
          [] v[2] # "s" /\ v[1] = "H"     -> <<"h vector", v[2]>>
          [] v[2] # "s" /\ v[1] = "long"  -> <<"long cut", "s">>
          [] OTHER                        -> v]
=============================================================================
