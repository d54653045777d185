--------------------------- MODULE MCContainerTest ----------------------------
(***************************************************************************)
(* ContainerTest with the service of MCContainerService, whose containers  *)
(* are made of one image.                                                  *)
(***************************************************************************)
EXTENDS MCContainerService, ContainerTest
================================================================================
