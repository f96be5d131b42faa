-------------------------------- MODULE MCResults --------------------------------
(* MultistatusResults with the elements of a DAV: multistatus, and the places a
   sloppy server may put them in. *)
EXTENDS MultistatusResults

MCChildren ==
  [e \in Elements |->
     CASE e = "multistatus" -> {"response", "href"}
       [] e = "response"    -> {"href", "propstat", "prop", "response"}
       [] e = "propstat"    -> {"prop", "status"}
       [] e = "prop"        -> {"live", "status", "other", "href"}
       [] e = "live"        -> {"ignore", "other"}
       [] e = "status"      -> {"other"}
       [] OTHER             -> {}]
================================================================================
