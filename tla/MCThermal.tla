------------------------------ MODULE MCThermal ------------------------------
EXTENDS Thermal

(* A planar chip of four banks, its rows swept in two refreshes.           *)
Planar ==
    [kind |-> "planar", channels |-> 1, ranks |-> 2, bankgroups |-> 1,
     banks_per_group |-> 4, rows |-> 4, columns |-> 4, device_width |-> 2,
     BL |-> 2, num_dies |-> 1, mat_dim_x |-> 2, mat_dim_y |-> 4,
     bank_order |-> 1, bank_layer_order |-> 0, refresh |-> "REFRESH",
     tREFI |-> 1, window |-> 2, loc_mapping |-> <<>>]

(* Rows that are placed in another order (the bits of a row swapped).      *)
Mapped ==
    [Planar EXCEPT !.window = 4, !.loc_mapping = << <<>>, <<>>, <<>>, <<6, 5>>, <<3, 4>>, <<2, 1>> >>]

(* Two groups of four banks, in a line in y or in x.                       *)
GroupsInY == [Planar EXCEPT !.bankgroups = 2, !.ranks = 1, !.rows = 8]
GroupsInX == [GroupsInY EXCEPT !.rows = 4, !.columns = 8]

(* A stack with two dies, four channels and all banks of HBM.              *)
Stack == [Planar EXCEPT !.kind = "HBM", !.channels = 4, !.ranks = 1,
                        !.bankgroups = 4, !.num_dies = 2, !.rows = 2, !.mat_dim_x = 1]

(* A cube with two dies and four vaults of four banks, two on each die.    *)
Cube == [Planar EXCEPT !.kind = "HMC", !.channels = 4, !.ranks = 1, !.num_dies = 2,
                       !.rows = 4]

BankByBank(g) == [g EXCEPT !.refresh = "REFRESH_BANK", !.ranks = 1,
                           !.channels = IF g.kind = "HMC" THEN 2 ELSE 1]

(* Both orders of banks and, in a cube, both orders of layers.             *)
BankOrders(g) == {[g EXCEPT !.bank_order = o] : o \in {0, 1}}

SoundGeometries ==
    UNION {BankOrders(g) : g \in {Planar, GroupsInY, GroupsInX, Stack, Cube,
                              [Cube EXCEPT !.bank_layer_order = 1]}}
    \cup {Mapped, BankByBank(Planar), BankByBank(Cube)}
=============================================================================
