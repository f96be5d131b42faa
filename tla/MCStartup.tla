------------------------------- MODULE MCStartup -------------------------------
(* Startup with interchangeable servers, proxies and heap blocks. *)
EXTENDS Startup

================================================================================
