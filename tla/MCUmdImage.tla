----------------------------- MODULE MCUmdImage -----------------------------
(***************************************************************************)
(* Small instances of UmdImage for TLC.  A behaviour is that of one part:  *)
(*                                                                         *)
(*   disc   the reader asks for sectors of the image, as isofs does; the   *)
(*          constants of the module are those of this part                 *)
(*   seek   it goes through umd0:, from any position, with a buffer of one *)
(*          block                                                          *)
(***************************************************************************)
EXTENDS UmdImage

CONSTANTS r1, cso2, cso3, iso2, fd1, fd2, Parts

VARIABLE part

OneReader   == {r1}
AllImages   == {cso2, cso3, iso2}
OneImage    == {cso3}
AllCso      == {cso2, cso3}
OneFd       == {fd1}
TwoFds      == {fd1, fd2}
Lengths     == [i \in Images |-> IF i = cso3 THEN 3 ELSE 2]

S == INSTANCE UmdImage WITH
    UmdReaders <- {r1}, Images <- {cso2, iso2}, Cso <- {cso2}, Stored <- {}, BufSize <- 1,
    MaxLength <- 2, Length <- [i \in {cso2, iso2} |-> 2]

ASSUME S!ImagesAssumption /\ S!LengthAssumption /\ S!SizesAssumption /\ S!ReadersAssumption

AllInit == \/ part = "disc" /\ part \in Parts /\ Init
           \/ part = "seek" /\ part \in Parts /\ S!Init
AllNext == /\ UNCHANGED part
           /\ (part = "disc" /\ Next) \/ (part = "seek" /\ S!Next)
AllSpec == AllInit /\ [][AllNext]_<<part, vars>>

\* the properties promise nothing once the reader has been misled
Guarded == ~misled
=============================================================================
