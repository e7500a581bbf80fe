------------------------------- MODULE FileStore -------------------------------
(***************************************************************************)
(* The media of conversations: a row of files and a file on disk, filed    *)
(* under the lead of the conversation (src/internal/files).                *)
(*                                                                         *)
(* A file is stored while its message is received, before that message     *)
(* makes a lead of its conversation; nothing files it again later.         *)
(***************************************************************************)
EXTENDS FiniteSets

CONSTANTS
  File,        \* ids of files
  Chat,        \* conversations
  ChatLead,    \* ids of leads
  FileRequest, \* messages with media in flight
  FileFaults,  \* {"db", "disk", "crash"}
  NoLead

ASSUME FileAssumption == NoLead \notin ChatLead

VARIABLES
  file,     \* rows of files, a function of the ids that have one
  content,  \* ids of files whose content is on disk
  temp,     \* ids of files of which a temporary file is
  chatLead, \* the lead of a conversation, or NoLead
  gone,     \* ids of leads that are no more
  fileReq,  \* messages in flight
  leftOver  \* history: content a failure or a crash left without a row

fileVars == <<file, content, temp, chatLead, gone, fileReq, leftOver>>

FileRow == [chat : Chat, lead : ChatLead \cup {NoLead}]
FileIdle == [phase |-> "none"]
FilePhase == {"none", "temp", "rename", "row"}
LiveLeads == {chatLead[c] : c \in Chat} \ {NoLead}

FileTypeOK ==
  /\ DOMAIN file \subseteq File /\ \A f \in DOMAIN file : file[f] \in FileRow
  /\ content \subseteq File /\ temp \subseteq File
  /\ chatLead \in [Chat -> ChatLead \cup {NoLead}]
  /\ \A r \in FileRequest : fileReq[r].phase \in FilePhase

FileInit ==
  /\ file = <<>> /\ content = {} /\ temp = {} /\ leftOver = {} /\ gone = {}
  /\ chatLead = [c \in Chat |-> NoLead]
  /\ fileReq = [r \in FileRequest |-> FileIdle]

-----------------------------------------------------------------------------
StepTo(r, q) == fileReq' = [fileReq EXCEPT ![r] = q]
InFlight == {fileReq[r].file : r \in {x \in FileRequest : fileReq[x].phase # "none"}}
\* Content whose request ends without a row.
LeavesContent(rs) ==
  leftOver' = leftOver \cup ({fileReq[r].file : r \in {x \in rs : fileReq[x].phase = "row"}} \cap content)

\* The id is new; the lead is the one the conversation has now.
LeadLookup(c) == chatLead[c]
StoreFile(r, f, c) ==
  /\ fileReq[r].phase = "none"
  /\ f \notin DOMAIN file \cup content \cup temp \cup InFlight
  /\ StepTo(r, [phase |-> "temp", file |-> f, chat |-> c, lead |-> LeadLookup(c)])
  /\ UNCHANGED <<file, content, temp, chatLead, gone, leftOver>>

\* A temporary file, removed when its write fails, and a rename.
WriteTemp(r) ==
  LET q == fileReq[r] IN
  /\ q.phase = "temp"
  /\ \/ temp' = temp \cup {q.file} /\ StepTo(r, [q EXCEPT !.phase = "rename"])
     \/ "disk" \in FileFaults /\ StepTo(r, FileIdle) /\ UNCHANGED temp
  /\ UNCHANGED <<file, content, chatLead, gone, leftOver>>
\* Mutant: the row is inserted whether or not the content was saved.
RenameIgnoringErrors(r) ==
  LET q == fileReq[r] IN
  /\ q.phase = "rename"
  /\ temp' = temp \ {q.file}
  /\ content' \in {content, content \cup {q.file}}
  /\ StepTo(r, [q EXCEPT !.phase = "row"])
  /\ UNCHANGED <<file, chatLead, gone, leftOver>>
RenameTemp(r) ==
  LET q == fileReq[r] IN
  /\ q.phase = "rename"
  /\ temp' = temp \ {q.file}
  /\ \/ content' = content \cup {q.file} /\ StepTo(r, [q EXCEPT !.phase = "row"])
     \/ "disk" \in FileFaults /\ StepTo(r, FileIdle) /\ UNCHANGED content
  /\ UNCHANGED <<file, chatLead, gone, leftOver>>

\* The foreign key refuses a lead that is gone; the content stays then.
CreateFile(r) ==
  LET q == fileReq[r] IN
  /\ q.phase = "row"
  /\ \/ /\ q.lead \notin gone
        /\ file' = [f \in DOMAIN file \cup {q.file} |->
             IF f = q.file THEN [chat |-> q.chat, lead |-> q.lead] ELSE file[f]]
        /\ UNCHANGED leftOver
     \/ ("db" \in FileFaults \/ q.lead \in gone) /\ LeavesContent({r}) /\ UNCHANGED file
  /\ StepTo(r, FileIdle)
  /\ UNCHANGED <<content, temp, chatLead, gone>>

FileCrash ==
  /\ "crash" \in FileFaults
  /\ LeavesContent(FileRequest)
  /\ fileReq' = [r \in FileRequest |-> FileIdle]
  /\ UNCHANGED <<file, content, temp, chatLead, gone>>

\* The message that made the file, or a later one, makes the lead.
LeadCreated(c, l) ==
  /\ chatLead[c] = NoLead /\ l \notin LiveLeads \cup gone
  /\ chatLead' = [chatLead EXCEPT ![c] = l]
  /\ UNCHANGED <<file, content, temp, gone, fileReq, leftOver>>
\* ON DELETE SET NULL.
LeadDeleted(c) ==
  /\ chatLead[c] # NoLead
  /\ chatLead' = [chatLead EXCEPT ![c] = NoLead]
  /\ gone' = gone \cup {chatLead[c]}
  /\ file' = [f \in DOMAIN file |->
       IF file[f].lead = chatLead[c] THEN [file[f] EXCEPT !.lead = NoLead] ELSE file[f]]
  /\ UNCHANGED <<content, temp, fileReq, leftOver>>

\* What a page may show, and whether a file can be opened.
ListRecentByLead(l) == {f \in DOMAIN file : file[f].lead = l}
OpenContent(f) == f \in content
DownloadFile(f) == f \in DOMAIN file /\ OpenContent(f)

FileNext ==
  \/ \E r \in FileRequest :
       \/ \E f \in File, c \in Chat : StoreFile(r, f, c)
       \/ WriteTemp(r) \/ RenameTemp(r) \/ CreateFile(r)
  \/ FileCrash
  \/ \E c \in Chat : LeadDeleted(c) \/ \E l \in ChatLead : LeadCreated(c, l)
FileSpec == FileInit /\ [][FileNext]_fileVars
-----------------------------------------------------------------------------
\* A file that is listed can be downloaded and is under a lead of its own
\* conversation that there still is, and content without a row is only what a
\* failed insert or a crash left (store_file.go:57-91).
FilesAreWhole ==
  /\ \A f \in DOMAIN file : DownloadFile(f)
  /\ \A c \in Chat : \A f \in ListRecentByLead(chatLead[c]) : chatLead[c] # NoLead => file[f].chat = c
  /\ \A f \in DOMAIN file : file[f].lead \in LiveLeads \cup {NoLead}
  /\ content \subseteq DOMAIN file \cup InFlight \cup leftOver
=============================================================================
