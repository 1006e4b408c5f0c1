----------------------------- MODULE MCListing -----------------------------
(***************************************************************************)
(* Constants of TLC's run of Listing: names of one to three bytes that a   *)
(* URL must escape, or that look like an escape.                           *)
(***************************************************************************)
EXTENDS Listing

A         == <<65>>
SpacePlus == <<Space, Plus>>
Escape    == <<Percent, 52, 49>>
Latin     == <<233, Question>>

MCName    == {A, SpacePlus, Escape, Latin, <<Backslash>>}
MCNotUtf8 == {Latin}
MCDirPath == {<< >>, <<SpacePlus, Escape>>, << <<Backslash>> >>}

Find(prefix, asks, props) ==
  [body |-> "propfind", prefix |-> prefix, asks |-> asks, props |-> props]

MCDocument ==
  { [Find("D", "neither", << >>) EXCEPT !.body = "none"],
    [Find("D", "neither", << >>) EXCEPT !.body = "other"],
    Find("x", "allprop", << >>),
    Find("x", "prop", <<[prefix |-> "x", local |-> "getetag"],
                        [prefix |-> "",  local |-> "displayname"],
                        [prefix |-> "Z", local |-> "owner"],
                        [prefix |-> "Z", local |-> "getcontentlength"]>>) }

(* All texts of one byte, and those of up to four from the bytes that mean *)
(* something to the coding.                                                *)
MCText == [1 .. 1 -> Byte] \union BoundedSeq({Percent, Plus, 52, 102, 200}, 4)
=============================================================================
