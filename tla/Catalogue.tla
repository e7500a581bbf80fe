-------------------------------- MODULE Catalogue --------------------------------
(***************************************************************************)
(* Everything an office keeps for its firms: specialists and their         *)
(* scripts, products, documents and servers, and the media of              *)
(* conversations.                                                          *)
(*                                                                         *)
(* The handlers of each share the rows of the specialists and nothing else *)
(* (src/cmd/api/main.go): a step is a step of one of them.                 *)
(***************************************************************************)
EXTENDS Script, Products, Library, FileStore

catalogueVars == <<specVars, scriptVars, productVars, libraryVars, fileVars>>

CatalogueInit == SpecialistInit /\ ScriptInit /\ ProductInit /\ LibraryInit /\ FileInit
CatalogueNext ==
  \/ SpecialistNext /\ UNCHANGED <<scriptVars, productVars, libraryVars, fileVars>>
  \/ ScriptNext /\ UNCHANGED <<specVars, productVars, libraryVars, fileVars>>
  \/ ProductNext /\ UNCHANGED <<specVars, scriptVars, libraryVars, fileVars>>
  \/ LibraryNext /\ UNCHANGED <<specVars, scriptVars, productVars, fileVars>>
  \/ FileNext /\ UNCHANGED <<specVars, scriptVars, productVars, libraryVars>>
CatalogueSpec == CatalogueInit /\ [][CatalogueNext]_catalogueVars

CatalogueTypeOK == SpecialistTypeOK /\ ScriptTypeOK /\ ProductTypeOK /\ LibraryTypeOK /\ FileTypeOK

-----------------------------------------------------------------------------
\* What a row names is there: documents and media have their files, whichever
\* statement failed or wherever the process died.
NothingHalfStored == CatalogueTypeOK /\ DocumentsAreWhole /\ FilesAreWhole
=============================================================================
