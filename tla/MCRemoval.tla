----------------------------- MODULE MCRemoval -----------------------------
(* An instance of FtpRemoval for TLC: one file, with a space in its name,   *)
(* on an FTP server.                                                        *)
EXTENDS FtpRemoval

CONSTANT a1

Tokens == {"/", " ", "%", "test", "a", "b"}
SourcePath == <<"/", "test", "/">>

SpacedName == [f \in {a1} |-> <<"a", " ", "b">>]
SpacedParent == [e \in {a1} |-> Root]
SpacedRewrite == [m \in {None} |-> [n \in {<<"a", " ", "b">>} |-> n]]
NoFolderName == [d \in {} |-> <<>>]
SpacedConfigs ==
  [protocol : {"FTP"}, recursiv : BOOLEAN, file_mode : {"COPY"},
   mask : {"none"}, to : {<<None>>}, empty : {FALSE}]
SpacedAbove == [e \in {a1} |-> {Root}]
=============================================================================
