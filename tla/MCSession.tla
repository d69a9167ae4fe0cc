----------------------------- MODULE MCSession -----------------------------
(* Two users, one of whom the operator may give another password, name twice,
   replace by a third, here one whose name has a separator in it, or leave out;
   two secrets. *)
EXTENDS Session

Ann   == << "ann" >>
AnnX  == << "ann", "x" >>
Bob   == << "bob" >>
Cid   == << "cid" >>

MCNames == {Ann, AnnX, Bob}
MCPlainNames == {Ann, Cid, Bob}
MCPasswords == {"p", "q"}

Lists(third) ==
  { << << Ann, "p" >>, << Bob, "q" >> >>,
    << << Ann, "p" >>, << >>, << Ann, "q" >> >>,
    << << third, "p" >>, << Bob, "q" >> >>,
    << << Bob, "p" >>, << Ann >> >>,
    << << >> >> }

MCEnvironments      == [entries : Lists(AnnX), secret : {"none", "s", "t"}]
MCPlainEnvironments == [entries : Lists(Cid), secret : {"none", "s", "t"}]
=============================================================================
