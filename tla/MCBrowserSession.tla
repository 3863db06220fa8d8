-------------------------- MODULE MCBrowserSession --------------------------
(***************************************************************************)
(* Small instances of BrowserSession: a laptop with two tabs and a phone   *)
(* that is signed in elsewhere, or with one tab on each.                   *)
(***************************************************************************)
EXTENDS BrowserSession, TLC

CONSTANTS laptop, phone, left, right, mobile, ann

MCBrowser == {laptop, phone}
MCLaptopTab == {left, right}
MCTwoTab == {left, mobile}
MCHome == [t \in Tab |-> IF t = mobile THEN phone ELSE laptop]
MCUser == {ann}
MCSymmetry == Permutations(MCLaptopTab)
=============================================================================
