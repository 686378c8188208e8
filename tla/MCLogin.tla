------------------------------ MODULE MCLogin ------------------------------
(* Instance of Login for TLC: each method alone and several together. *)
EXTENDS Login

MCOffers == {<<33, 20, 31>>, <<33>>}
MCUamOffers == {<<u>> : u \in ToSet(UamStrings)} \cup
               {<<"Randnum_Exchange", "Private_method", "Cleartxt_Passwrd", "No_User_Authent">>,
                <<"DHX2", "DHCAST128", "2-Way_Randnum_Exchange">>, << >>}
MCMasks == {DefaultUams, {"No_User_Authent"}, {"Client_Krb_v2"}}
=============================================================================
