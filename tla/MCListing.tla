------------------------------- MODULE MCListing -------------------------------
(* Listing with two collections below the root, and two names of which one
   begins the other. *)
EXTENDS Listing

MCColls == {<<>>, <<1>>, <<2>>}
MCStems == {{1, 2}, {2}}

MCKinds ==
  {[collection |-> "nowhere", getcontentlength |-> "value", getlastmodified |-> "value"],
   [collection |-> "resourcetype", getcontentlength |-> "failed", getlastmodified |-> "value"],
   [collection |-> "elsewhere", getcontentlength |-> "failed", getlastmodified |-> "value"],
   [collection |-> "nowhere", getcontentlength |-> "failed", getlastmodified |-> "absent"]}
================================================================================
