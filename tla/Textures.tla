------------------------------ MODULE Textures ------------------------------
(***************************************************************************)
(* The texture objects of the client: texture.cpp, and the two images a    *)
(* server may send (socket.cpp).  Every object is registered in mTextures  *)
(* when it is made and stays there until it is deleted; a load that fails  *)
(* leaves its nameless object behind.  The order of the registry, and the  *)
(* pixels, are left out.                                                   *)
(***************************************************************************)
EXTENDS Naturals, FiniteSets

CONSTANTS
    TexId,          \* texture objects that may exist at once (a bound)
    NoTex,          \* NULL
    Configured      \* sides with a LeftTex or RightTex in bsod2.cfg

Sides == {"left", "right"}

ASSUME TexAssumption == NoTex \notin TexId /\ Configured \subseteq Sides

VARIABLES
    mTextures,      \* the registered objects, with name and "has an image"
    sideTex,        \* mLeftTex and mRightTex
    mParticleTex

texVars == <<mTextures, sideTex, mParticleTex>>

-----------------------------------------------------------------------------
Registered == DOMAIN mTextures
Unused(reg) == TexId \ DOMAIN reg

\* loadPngTexture: the object is registered first; a bad image leaves it
\* without name and without texture on the card, and returns NULL.
Loaded(reg, name, good) ==
    LET id == CHOOSE t \in Unused(reg) : TRUE
    IN  [reg |-> [t \in DOMAIN reg \cup {id} |->
                     IF t = id THEN [mFilename |-> IF good THEN name ELSE "",
                                     onCard |-> good]
                     ELSE reg[t]],
         tex |-> IF good THEN id ELSE NoTex]

\* texInit: the configured images, the particle and the banner, each of which
\* makes an object of its own.  The client does not start without the first
\* three.
StartNames == Configured \cup {"particle.png", "banner.png"}

IsOneEach(id) == \A m, n \in StartNames : id[m] = id[n] => m = n

ASSUME TexIdAssumption == \E id \in [StartNames -> TexId] : IsOneEach(id)

StartIds == CHOOSE id \in [StartNames -> TexId] : IsOneEach(id)

TexInit ==
    /\ mTextures = [t \in {StartIds[n] : n \in StartNames} |->
           [mFilename |-> CHOOSE n \in StartNames : StartIds[n] = t,
            onCard    |-> TRUE]]
    /\ sideTex = [s \in Sides |-> IF s \in Configured THEN StartIds[s] ELSE NoTex]
    /\ mParticleTex = StartIds["particle.png"]

\* IMAGE_DATA: texGenerate, unless the side has an image of its own.
ImageFor(side, good) ==
    IF side \in Configured THEN UNCHANGED texVars
    ELSE /\ Unused(mTextures) # {}
         /\ LET new == Loaded(mTextures, side, good) IN
            /\ mTextures' = new.reg
            /\ sideTex' = [sideTex EXCEPT ![side] = new.tex]
         /\ UNCHANGED mParticleTex

\* disconnect: the images that came from the server are deleted.
FromServer == {s \in Sides \ Configured : sideTex[s] # NoTex}

KeptSides == sideTex                         \* mutant: the pointers stay
ClearedSides == [s \in Sides |-> IF s \in FromServer THEN NoTex ELSE sideTex[s]]

\* texDelete: off the card, out of the registry, deleted.
Deleted(reg, texs) == [t \in DOMAIN reg \ texs |-> reg[t]]

DropImages ==
    /\ mTextures' = Deleted(mTextures, {sideTex[s] : s \in FromServer})
    /\ sideTex' = ClearedSides
    /\ UNCHANGED mParticleTex

\* What is drawn with is registered and on the card, and no two of them are
\* the same object.
ImagesAlive ==
    /\ \A s \in Sides : sideTex[s] # NoTex =>
          sideTex[s] \in Registered /\ mTextures[sideTex[s]].onCard
    /\ mParticleTex \in Registered
    /\ \A s \in Sides : sideTex[s] # mParticleTex
    /\ sideTex["left"] = sideTex["right"] => sideTex["left"] = NoTex
    /\ \A s \in Configured : sideTex[s] # NoTex
=============================================================================
