------------------------------ MODULE MCAccounts ------------------------------
(***************************************************************************)
(* Small instances of Accounts: three profiles, one of them spelled in two *)
(* ways, three names, and backups that overlap, collide, overflow and hold *)
(* unusable records.                                                       *)
(***************************************************************************)
EXTENDS Accounts, TLC

CONSTANTS plain, coded, broken, odd

Luc == <<1, 0>>
LUC == <<1, 1>>
Pat == <<2, 0>>
Label == <<0, 1>>      \* "Default"
a1 == <<1, 0>>
A1 == <<1, 1>>
b1 == <<2, 0>>
unnamed == <<0, 0>>

In(p, n, d, u) == [profile |-> p, name |-> n, data |-> d, used |-> u]

MCProfiles == {Default, Label, Luc, LUC, Pat}
MCNames == {unnamed, a1, A1, b1}
MCData == {plain, coded, broken, odd}
MCCodes == plain :> 0 @@ coded :> 1 @@ broken :> 0 @@ odd :> 0
MCTargets == {Label, Luc}

MCInputs == {In(Label, a1, plain, {}), In(LUC, A1, coded, {}), In(Pat, b1, plain, {}),
             In(Luc, unnamed, plain, {}), In(Luc, b1, broken, {})}

MCBackups == {<<In(Luc, A1, coded, {1}), In(Pat, unnamed, plain, {}), In(Luc, b1, plain, {})>>,
              <<In(Label, b1, plain, {}), In(Pat, b1, coded, {}), In(Default, a1, odd, {})>>}

MCSamples == <<In(Default, a1, plain, {}), In(Default, b1, coded, {1})>>

=============================================================================
