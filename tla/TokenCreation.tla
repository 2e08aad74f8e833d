---------------------------- MODULE TokenCreation ----------------------------
(***************************************************************************)
(* The page that launches a token (src/apps/web/src/app/create/page.tsx),  *)
(* with the image it uploads first (components/ImageUpload.tsx,            *)
(* app/api/upload-image/route.ts): a form kept in the session storage, one *)
(* lock for the launch under way, a transaction with a deadline, and a     *)
(* search for the new token when the answer of the network does not name   *)
(* it.  A form is told apart by its symbol and its image; an account is    *)
(* connected throughout.                                                   *)
(***************************************************************************)
EXTENDS Integers, FiniteSets, SequencesExt

CONSTANTS
    Symbols,
    NoSymbol,       \* a form that validateForm refuses
    Images,
    NoImage,
    Selections,     \* bound of the model on the images being read or uploaded
    TxSeconds,      \* setTimeout of the transaction
    SigningSeconds, \* the least time from building a transaction to its signature
    MaxAttempts,    \* polls before the page gives up, one a second
    ListLimit,      \* tokens of a creator that one read of the factory returns
    PageDelay,      \* bound of the model on the seconds between two steps of the page
    TryBound,       \* bound of the model on the launches tried
    CreateBound     \* bound of the model on edits, reloads and launches elsewhere

ASSUME CreationAssumption ==
    /\ NoSymbol \notin Symbols /\ NoImage \notin Images
    /\ TryBound \in Nat /\ ListLimit \in Nat

VARIABLES
    createdTokens,  \* the factory: tokens of the creator, oldest first, as [symbol, image]
    creatorSeq,     \* the sequence number of the creator's account
    createClock,
    page,           \* "away", "open"
    fields, storedForm,   \* [symbol, image]: in the page, in sessionStorage
    preview,        \* the image ImageUpload shows
    selected,       \* selected[s]: [image, at] of a file being read or uploaded
    isUploading,
    formState,
    isSubmitting,   \* isSubmittingRef
    launch,         \* the launch of the page: [n, form, built, seq, polls, polledAt, blind, shown]
    launched,       \* launched[n]: the transaction of try n, [at, form, built, seq]
    left,           \* left[n]: try n of a page that was left, [at, form, built, seq]
    createMoves

createVars == <<createdTokens, creatorSeq, createClock, page, fields, storedForm, preview, selected,
                isUploading, formState, isSubmitting, launch, launched, left, createMoves>>
chainVars == <<createdTokens, creatorSeq, createClock>>
imageVars == <<preview, selected, isUploading>>

EmptyForm == [symbol |-> NoSymbol, image |-> NoImage]
NoFile == [image |-> NoImage, at |-> "none"]
NoLaunch == [n |-> 0, form |-> EmptyForm, built |-> 0, seq |-> 0, polls |-> 0, polledAt |-> 0,
             blind |-> FALSE, shown |-> 0]
\* Of a transaction, and of a launch without its page.
NotSent == [at |-> "none", form |-> EmptyForm, built |-> 0, seq |-> 0]
CreateMove == createMoves < CreateBound /\ createMoves' = createMoves + 1
IsProcessing == formState \in {"building", "signing", "submitting", "confirming"}

CreateInit ==
    /\ createdTokens = <<>> /\ creatorSeq = 0 /\ createClock = 0
    /\ page = "away" /\ fields = EmptyForm /\ storedForm = EmptyForm
    /\ preview = NoImage /\ selected = [s \in Selections |-> NoFile] /\ isUploading = FALSE
    /\ formState = "idle" /\ isSubmitting = FALSE /\ launch = NoLaunch
    /\ launched = [n \in 1 .. TryBound |-> NotSent] /\ left = [n \in 1 .. TryBound |-> NotSent]
    /\ createMoves = 0

\* Every change of a field is written to the session storage.
SaveForm(f) == fields' = f /\ storedForm' = f

\* The page is mounted: the form of the session comes back, and its image is shown.
RestoreForm ==
    /\ page = "away" /\ page' = "open"
    /\ fields' = storedForm /\ preview' = storedForm.image
    /\ UNCHANGED <<chainVars, storedForm, selected, isUploading, formState, isSubmitting, launch, launched, left,
                   createMoves>>
\* Nothing of the page stays but the storage.
PageIsGone ==
    /\ page' = "away" /\ fields' = EmptyForm /\ preview' = NoImage
    /\ selected' = [s \in Selections |-> NoFile] /\ isUploading' = FALSE
    /\ formState' = "idle" /\ isSubmitting' = FALSE /\ launch' = [NoLaunch EXCEPT !.n = launch.n]

\* A launch does not ask whether its page is there: it goes on when the page is left
\* for another one of the application.  The timers do not.
Abandoned(tries) ==
    IF IsProcessing \/ formState = "success"
    THEN [tries EXCEPT ![launch.n] = [at |-> formState, form |-> launch.form, built |-> launch.built,
                                      seq |-> launch.seq]]
    ELSE tries
PageIsLeft(tries) ==
    /\ PageIsGone
    /\ \/ left' = Abandoned(tries) /\ UNCHANGED storedForm
       \/ /\ formState = "success" /\ launch.shown # -1
          /\ left' = tries /\ storedForm' = EmptyForm
    /\ UNCHANGED <<chainVars, launched>>
LeaveCreatePage == page = "open" /\ CreateMove /\ PageIsLeft(left)
\* With a reload every launch is gone.
ReloadCreatePage ==
    /\ CreateMove /\ PageIsGone
    /\ left' = [n \in 1 .. TryBound |-> NotSent]
    /\ UNCHANGED <<chainVars, storedForm, launched>>

\* The fields are disabled while a launch is under way, but not after it.
EditField(s) ==
    /\ page = "open" /\ ~IsProcessing /\ s # fields.symbol /\ CreateMove
    /\ SaveForm([fields EXCEPT !.symbol = s])
    /\ UNCHANGED <<chainVars, page, imageVars, formState, isSubmitting, launch, launched, left>>

-----------------------------------------------------------------------------
\* The area that opens the file dialog is there as long as no image is shown, so a
\* second file can be chosen while the dimensions of a first one are read.
HandleFileSelect(s, i) ==
    /\ page = "open" /\ ~IsProcessing /\ ~isUploading /\ preview = NoImage
    /\ selected[s] = NoFile /\ CreateMove
    /\ selected' = [selected EXCEPT ![s] = [image |-> i, at |-> "reading"]]
    /\ UNCHANGED <<chainVars, page, fields, storedForm, preview, isUploading, formState, isSubmitting,
                   launch, launched, left>>

\* A file of another type, size or dimension is refused; else its preview appears
\* and its upload begins.
ValidateImage(s) ==
    /\ selected[s].at = "reading"
    /\ \/ /\ selected' = [selected EXCEPT ![s] = NoFile]
          /\ UNCHANGED <<preview, isUploading>>
       \/ /\ selected' = [selected EXCEPT ![s].at = "uploading"] /\ isUploading' = TRUE
          /\ preview' \in {selected[s].image, preview}
    /\ UNCHANGED <<chainVars, page, fields, storedForm, formState, isSubmitting, launch, launched, left, createMoves>>

\* The answer of the upload: an address of the stored image, or an error, which empties
\* the field and keeps the preview.  Without a preview the image of the field is shown.
\* Of two uploads the first that ends takes the mark of both away.
UploadEnds(s, image) ==
    /\ selected[s].at = "uploading"
    /\ selected' = [selected EXCEPT ![s] = NoFile] /\ isUploading' = FALSE
    /\ SaveForm([fields EXCEPT !.image = image])
    /\ preview' = IF preview = NoImage THEN image ELSE preview
    /\ UNCHANGED <<chainVars, page, formState, isSubmitting, launch, launched, left, createMoves>>
UploadToIPFS(s) == UploadEnds(s, selected[s].image)
UploadFails(s) == UploadEnds(s, NoImage)

HandleRemove ==
    /\ page = "open" /\ preview # NoImage /\ ~IsProcessing /\ ~isUploading
    /\ preview' = NoImage /\ SaveForm([fields EXCEPT !.image = NoImage])
    /\ UNCHANGED <<chainVars, page, selected, isUploading, formState, isSubmitting, launch, launched, left,
                   createMoves>>

-----------------------------------------------------------------------------
\* The button is disabled while a launch is under way, and after one.
ButtonDisabled == IsProcessing \/ formState = "success"

ValidateForm == fields.symbol # NoSymbol /\ fields.image # NoImage

\* The button, and handleCreateToken up to its first await.
HandleCreateToken ==
    /\ page = "open" /\ ~ButtonDisabled
    /\ ~isSubmitting /\ ValidateForm /\ launch.n < TryBound
    /\ isSubmitting' = TRUE /\ formState' = "building"
    /\ launch' = [NoLaunch EXCEPT !.n = launch.n + 1, !.form = fields]
    /\ UNCHANGED <<chainVars, page, fields, storedForm, imageVars, launched, left, createMoves>>

Then(state, l) ==
    /\ formState' = state /\ launch' = l
    /\ UNCHANGED <<page, fields, storedForm, imageVars, isSubmitting, left, createMoves>>
Fails(blind) == Then("error", [launch EXCEPT !.blind = blind])

\* The factory takes a launch when the symbol is free.
SymbolIsFree(s) == \A i \in DOMAIN createdTokens : createdTokens[i].symbol # s

\* The transaction is built with the sequence number of now and simulated.
BuildLaunch ==
    /\ formState = "building"
    /\ \/ /\ SymbolIsFree(launch.form.symbol)
          /\ Then("signing", [launch EXCEPT !.built = createClock, !.seq = creatorSeq + 1])
       \/ Fails(FALSE)
    /\ UNCHANGED <<chainVars, launched>>

SignLaunch ==
    /\ formState = "signing" /\ createClock >= launch.built + SigningSeconds
    /\ Then("submitting", launch) \/ Fails(FALSE)
    /\ UNCHANGED <<chainVars, launched>>

LaunchDeadline(x) == x.built + TxSeconds
CanLaunch(x) == x.at = "pending" /\ x.seq = creatorSeq + 1 /\ createClock <= LaunchDeadline(x)

\* buildLaunchTokenV2Operation: the transaction takes along what the form held when the
\* button was pressed.
LaunchTransaction(l) == [at |-> "pending", form |-> l.form, built |-> l.built, seq |-> l.seq]

\* sendTransaction: taken, refused, or taken with its answer lost; an answer that asks
\* to try again later is taken for an acceptance.
SubmitLaunch ==
    /\ formState = "submitting"
    /\ \/ LET sent == LaunchTransaction(launch)
          IN  /\ CanLaunch(sent)
              /\ launched' = [launched EXCEPT ![launch.n] = sent]
              /\ Then("confirming", [launch EXCEPT !.polledAt = createClock - 1]) \/ Fails(TRUE)
       \/ /\ UNCHANGED launched
          /\ Then("confirming", [launch EXCEPT !.polledAt = createClock - 1]) \/ Fails(FALSE)
    /\ UNCHANGED chainVars

\* The poll: the answer names the new token, its place in the list of the creator, or
\* comes without it; a failure reported by the other server is swallowed.
PollLaunch ==
    /\ formState = "confirming" /\ launch.polls < MaxAttempts /\ launch.polledAt < createClock
    /\ LET again(blind) == Then("confirming", [launch EXCEPT !.polls = @ + 1, !.polledAt = createClock,
                                                             !.blind = blind])
           place == CHOOSE i \in DOMAIN createdTokens : createdTokens[i].symbol = launch.form.symbol
       IN  CASE launched[launch.n].at = "executed" ->
                  \/ Then("success", [launch EXCEPT !.shown = place])
                  \/ Then("success", [launch EXCEPT !.shown = -1])
                  \/ again(TRUE) \/ Fails(TRUE)
             [] launched[launch.n].at = "refused" -> Fails(FALSE) \/ again(TRUE) \/ Fails(TRUE)
             [] OTHER -> again(FALSE) \/ again(TRUE) \/ Fails(TRUE)
    /\ UNCHANGED <<chainVars, launched>>

GiveUpLaunch ==
    /\ formState = "confirming" /\ launch.polls = MaxAttempts /\ launch.polledAt < createClock
    /\ Fails(launch.blind)
    /\ UNCHANGED <<chainVars, launched>>

\* Mutant: the list of the creator is taken to begin with the newest token.
NewestToken_First(list) == IF list = <<>> THEN 0 ELSE 1

\* The newest token of a list that starts with the oldest.
NewestToken(list) == Len(list)

\* The fallback: the tokens of the creator are read, at most a page of them; a read
\* that fails is an empty list.
GetCreatorTokens ==
    /\ formState = "success" /\ launch.shown = -1
    /\ \E list \in {SubSeq(createdTokens, 1, Min({ListLimit, Len(createdTokens)})), <<>>} :
           Then("success", [launch EXCEPT !.shown = NewestToken(list)])
    /\ UNCHANGED <<chainVars, launched>>

\* After the sync of the token the form of the session is removed, and a timer leads
\* to the list of tokens.
RedirectToExplore ==
    /\ formState = "success" /\ launch.shown # -1
    /\ storedForm' = EmptyForm /\ PageIsGone
    /\ UNCHANGED <<chainVars, launched, left, createMoves>>

\* The timer of an error brings the form back.
ResetAfterError ==
    /\ formState = "error"
    /\ formState' = "idle" /\ isSubmitting' = FALSE
    /\ UNCHANGED <<chainVars, page, fields, storedForm, imageVars, launch, launched, left, createMoves>>

-----------------------------------------------------------------------------
\* A launch whose page was left is built, signed and sent like any other, or fails.
LeftMoves(n, l) ==
    /\ left' = [left EXCEPT ![n] = l]
    /\ UNCHANGED <<chainVars, page, fields, imageVars, formState, isSubmitting, launch, createMoves>>
LeftBuilds(n) ==
    /\ left[n].at = "building" /\ UNCHANGED <<storedForm, launched>>
    /\ \/ /\ SymbolIsFree(left[n].form.symbol)
          /\ LeftMoves(n, [left[n] EXCEPT !.at = "signing", !.built = createClock, !.seq = creatorSeq + 1])
       \/ LeftMoves(n, NotSent)
LeftSubmits(n) ==
    /\ left[n].at \in {"signing", "submitting"} /\ UNCHANGED storedForm
    /\ left[n].at = "signing" => createClock >= left[n].built + SigningSeconds
    /\ LET sent == LaunchTransaction(left[n])
       IN  \/ UNCHANGED launched
           \/ CanLaunch(sent) /\ launched' = [launched EXCEPT ![n] = sent]
    /\ LeftMoves(n, NotSent) \/ LeftMoves(n, [left[n] EXCEPT !.at = "confirming"])
LeftConfirms(n) ==
    /\ left[n].at = "confirming" /\ UNCHANGED <<storedForm, launched>>
    /\ \/ launched[n].at = "executed" /\ LeftMoves(n, [left[n] EXCEPT !.at = "success"])
       \/ LeftMoves(n, NotSent)

\* At its end it removes the form of the session, whoever filled it in meanwhile, and
\* sets a timer nobody clears, which leads to the list of tokens from any page.
LeftClearsForm(n) ==
    /\ left[n].at = "success" /\ storedForm' = EmptyForm
    /\ LeftMoves(n, [left[n] EXCEPT !.at = "leading"])
    /\ UNCHANGED launched
LeftRedirects(n) ==
    /\ left[n].at = "leading" /\ PageIsLeft([left EXCEPT ![n] = NotSent])
    /\ UNCHANGED createMoves

-----------------------------------------------------------------------------
\* The network includes the transaction of the page, or one whose page was left.
IncludeLaunch(n) ==
    /\ CanLaunch(launched[n])
    /\ creatorSeq' = creatorSeq + 1
    /\ LET free == SymbolIsFree(launched[n].form.symbol)
       IN  /\ launched' = [launched EXCEPT ![n].at = IF free THEN "executed" ELSE "refused"]
           /\ createdTokens' = IF free THEN Append(createdTokens, launched[n].form) ELSE createdTokens
    /\ UNCHANGED <<createClock, page, fields, storedForm, imageVars, formState, isSubmitting, launch, left,
                   createMoves>>

\* The same account launches a token elsewhere.
LaunchElsewhere(s, i) ==
    /\ SymbolIsFree(s) /\ CreateMove
    /\ createdTokens' = Append(createdTokens, [symbol |-> s, image |-> i])
    /\ creatorSeq' = creatorSeq + 1
    /\ UNCHANGED <<createClock, page, fields, storedForm, imageVars, formState, isSubmitting, launch, launched, left>>

SecondPasses ==
    /\ \/ formState = "signing" /\ createClock < launch.built + SigningSeconds + PageDelay
       \/ formState = "confirming" /\ createClock < launch.polledAt + PageDelay
       \/ \E n \in 1 .. TryBound : /\ left[n].at = "signing"
                                   /\ createClock < left[n].built + SigningSeconds
    /\ createClock' = createClock + 1
    /\ UNCHANGED <<createdTokens, creatorSeq, page, fields, storedForm, imageVars, formState,
                   isSubmitting, launch, launched, left, createMoves>>

PageSteps == BuildLaunch \/ SignLaunch \/ SubmitLaunch \/ PollLaunch \/ GiveUpLaunch
             \/ GetCreatorTokens \/ RedirectToExplore \/ ResetAfterError
CreateNext ==
    \/ RestoreForm \/ LeaveCreatePage \/ ReloadCreatePage \/ HandleRemove \/ HandleCreateToken
    \/ BuildLaunch \/ SignLaunch \/ SubmitLaunch \/ PollLaunch \/ GiveUpLaunch
    \/ GetCreatorTokens \/ RedirectToExplore \/ ResetAfterError
    \/ SecondPasses \/ \E n \in 1 .. TryBound : IncludeLaunch(n)
    \/ \E n \in 1 .. TryBound : \/ LeftBuilds(n) \/ LeftSubmits(n) \/ LeftConfirms(n)
                                \/ LeftClearsForm(n) \/ LeftRedirects(n)
    \/ \E s \in Symbols : EditField(s) \/ \E i \in Images : LaunchElsewhere(s, i)
    \/ \E s \in Selections : \/ \E i \in Images : HandleFileSelect(s, i)
                             \/ ValidateImage(s) \/ UploadToIPFS(s) \/ UploadFails(s)

\* The page goes on, the wallet and the servers answer, time passes.
CreateFairness == WF_createVars(PageSteps) /\ WF_createVars(SecondPasses)
CreateSpec == CreateInit /\ [][CreateNext]_createVars /\ CreateFairness

-----------------------------------------------------------------------------
\* Types of the variables.
CreateTypeOK ==
    /\ \A i \in DOMAIN createdTokens : createdTokens[i].symbol \in Symbols
    /\ fields.symbol \in Symbols \cup {NoSymbol} /\ fields.image \in Images \cup {NoImage}
    /\ preview \in Images \cup {NoImage}
    /\ formState \in {"idle", "building", "signing", "submitting", "confirming", "success", "error"}
    /\ launch.shown \in -1 .. Len(createdTokens)

\* The message of success names the new token, once its address is known.
AddressShown == formState = "success" /\ launch.shown > 0

\* The token that is shown and synchronised after a launch is the one that was
\* launched, also when the answer did not name it, as long as the creator has no more
\* tokens than one read returns and launches nothing else meanwhile.
ShownTokenIsTheLaunched ==
    AddressShown /\ Len(createdTokens) <= ListLimit /\ creatorSeq = launch.seq
        => createdTokens[launch.shown] = launch.form

\* The image of a launch is the one the page shows.  Not true of the code: files chosen
\* one after the other while the first is read are uploaded in any order.
ImageIsShown ==
    formState = "building" => launch.form.image = preview

\* The lock of the page never stays: a launch ends with the form back, or the page left.
FormComesBack == isSubmitting ~> ~isSubmitting
=============================================================================
