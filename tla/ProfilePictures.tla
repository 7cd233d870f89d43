-------------------------- MODULE ProfilePictures --------------------------
(***************************************************************************)
(* The pictures users choose on the profile page, on a device whose other  *)
(* pages are those of ListPages.  The picture is stored in a file named    *)
(* for whoever is logged in; when it is stored and its URL is known, that  *)
(* URL is written to the database entry of whoever is logged in by then.   *)
(* Meanwhile the user may go on, log out, and somebody else log in.        *)
(***************************************************************************)
EXTENDS ListPages

CONSTANT MaxUploads     \* bound: pictures chosen in a behaviour

ASSUME UploadAssumption == MaxUploads \in Nat

VARIABLES url,          \* whose file each entry of the database points to
          uploads,      \* pictures on their way to the store
          chosen,       \* number of pictures chosen so far
          strayed       \* history: whose upload outlasted a login

pictures == <<url, uploads, chosen, strayed>>
deviceVars == <<vars, pictures>>

Upload == [n : 1..MaxUploads, file : Users]

\* Entry NULL is the node above the entries, which an empty name denotes.
DeviceInit == /\ Init
              /\ url = [uid \in Users \union {NULL} |-> NULL]
              /\ uploads = {}
              /\ chosen = 0
              /\ strayed = {}

\* Mutant: the pictures of all users go to one file.
didSelectShared ==
    /\ tab = "profile"
    /\ chosen < MaxUploads
    /\ chosen' = chosen + 1
    /\ uploads' = uploads \union {[n |-> chosen', file |-> CHOOSE user \in Users : TRUE]}
    /\ UNCHANGED <<vars, url, strayed>>

didSelect ==
    /\ tab = "profile"
    /\ chosen < MaxUploads
    /\ chosen' = chosen + 1
    /\ uploads' = uploads \union {[n |-> chosen', file |-> LoggedInUser]}
    /\ UNCHANGED <<vars, url, strayed>>

\* The end of putData and downloadURL.
registerimage(upload) ==
    /\ url' = [url EXCEPT ![LoggedInUser] = upload.file]
    /\ uploads' = uploads \ {upload}
    /\ UNCHANGED <<vars, chosen, strayed>>

LoseUpload(upload) == /\ uploads' = uploads \ {upload}
                      /\ UNCHANGED <<vars, url, chosen, strayed>>

\* The picker was cancelled: didSelect unwraps an image that is not there.
CancelPicker == tab = "profile" /\ Restart

\* A step of the other pages; a login or logout may find uploads under way.
Elsewhere ==
    /\ Move \/ Logout \/ Touch \/ Arrive
    /\ strayed' = IF LoggedInUser' = LoggedInUser THEN strayed
                  ELSE strayed \union {upload.file : upload \in uploads}
    /\ UNCHANGED <<url, uploads, chosen>>

AppEnds == /\ Crash \/ CancelPicker
           /\ uploads' = {}
           /\ UNCHANGED <<url, chosen, strayed>>

DeviceNext == \/ Elsewhere
              \/ AppEnds
              \/ didSelect
              \/ \E upload \in uploads : registerimage(upload) \/ LoseUpload(upload)

DeviceSpec == DeviceInit /\ [][DeviceNext]_deviceVars

-----------------------------------------------------------------------------
(* Properties *)

\* OwnPicture: the entry of a user points to that user's own file, or to one of
\* a user whose upload was still under way when somebody else logged in or out
\* (ProfileController.swift 89, 110-111).
OwnPicture ==
    \A uid \in Users : url[uid] \in {NULL, uid} \union strayed

=============================================================================
