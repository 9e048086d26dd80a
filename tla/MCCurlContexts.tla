--------------------------- MODULE MCCurlContexts ---------------------------
(***************************************************************************)
(* The libcurl contexts with a few threads and receivers.                  *)
(***************************************************************************)
EXTENDS CurlContexts
=============================================================================
