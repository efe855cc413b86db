--------------------------- MODULE MCAzureBackend ---------------------------
(***************************************************************************)
(* AzureBackend with one caller, other clients of the container and three  *)
(* blobs.                                                                  *)
(***************************************************************************)
EXTENDS AzureBackend

\* The prefix "a" has no blob directly under it; one level down there are a blob and a
\* folder marker, which DeleteAll takes for the blob of that name.
MCBlobs == { <<"x">>, <<"a", "b", "c">>, <<"a", "b", "c", "">> }
MCDirs == { <<"a">> }

\* A blob that no call can address counts only by being there or not, so the other
\* clients write and delete it, and leave their copies to the two others.
MCCopied == Named
=============================================================================
