------------------------------ MODULE MCWebClient ------------------------------
(***************************************************************************)
(* An instance of WebClient for TLC: what the profile page sends, with and   *)
(* without a headline, and what another client of the API sends.             *)
(***************************************************************************)
EXTENDS WebClient

OfPage == {"headline", "biography", "organizationName", "isIndependent"}

MCInputs ==
  {[given |-> OfPage, filled |-> {"headline", "organizationName"}],
   [given |-> OfPage, filled |-> {"biography"}],
   [given |-> Columns, filled |-> Columns],
   [given |-> {"stateId", "sectorIds"}, filled |-> {"stateId"}]}
================================================================================
