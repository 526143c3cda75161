---------------------------- MODULE MCHttpServer ----------------------------
(***************************************************************************)
(* Instances of HttpServer: the threads and the folders of projects.       *)
(***************************************************************************)
EXTENDS HttpServer

CONSTANTS t1, t2, root
=============================================================================
