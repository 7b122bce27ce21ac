------------------------------- MODULE CairoImage -------------------------------
(***************************************************************************)
(* esmart_cairo.c, its wrapper Esmartxx::Cairo and the part of MapCanvas   *)
(* that builds on it: Evas image objects that show and own the pixels of a *)
(* Cairo surface.  Cairo counts who refers to a surface, and the callbacks *)
(* an object has registered decide who lets go of it.                      *)
(***************************************************************************)
EXTENDS Integers

CONSTANTS
  Objects,     \* Evas objects, and the Cairo and MapCanvas objects around them
  Surfaces,
  Valid,       \* the image surfaces in ARGB32 or RGB24, with a good status
  SizeOf,      \* their sizes
  Sizes,       \* sizes objects are given
  NoSurface

ASSUME ImageAssumption ==
  /\ Valid \subseteq Surfaces /\ NoSurface \notin Surfaces
  /\ SizeOf \in [Surfaces -> Sizes]

VARIABLES
  widget,      \* the objects
  refs,        \* cairo_surface_t: references
  made,        \* the surfaces that have been created
  held,        \* those the client has a reference of
  lost,        \* those of which nobody knows any more
  aborted      \* an assertion failed

imageVars == <<widget, refs, made, held, lost, aborted>>

\* An object: its surface (DATA_KEY), where Evas reads pixels, the image_fill, the
\* size, how often the callbacks died and resized are registered, and the
\* surface that mCairo of a MapCanvas draws to.
Object ==
  [state : {"none", "live", "gone"}, surface : Surfaces \cup {NoSurface},
   pixels : Surfaces \cup {NoSurface}, fill : Sizes, size : Sizes,
   died : {0, 1}, resized : {0, 1}, mCairo : Surfaces \cup {NoSurface}]

Live == {o \in Objects : widget[o].state = "live"}

\* cairo_surface_destroy and cairo_surface_reference
Released(counts, s) == IF s = NoSurface THEN counts ELSE [counts EXCEPT ![s] = @ - 1]
Referred(counts, s) == [counts EXCEPT ![s] = @ + 1]

\* Faulty variant: the fill is left to the resize callback.
AttachedUnfilled(w, s) ==
  [w EXCEPT !.surface = s, !.pixels = s, !.size = SizeOf[s], !.died = 1,
            !.fill = IF w.resized = 1 THEN SizeOf[s] ELSE @]

\* What esmart_image_cairo_surface_set makes of an object and a valid surface: the
\* resize at its end fills again if the object does so.
Attached(w, s) ==
  [w EXCEPT !.surface = s, !.pixels = s, !.fill = SizeOf[s], !.size = SizeOf[s],
            !.died = 1]

ImageInit ==
  /\ \E size \in Sizes : widget =
       [o \in Objects |->
          [state |-> "none", surface |-> NoSurface, pixels |-> NoSurface, fill |-> size,
           size |-> size, died |-> 0, resized |-> 0, mCairo |-> NoSurface]]
  /\ refs = [s \in Surfaces |-> 0]
  /\ made = {} /\ held = {} /\ lost = {} /\ aborted = FALSE

-----------------------------------------------------------------------------
(* The client's own surfaces (external: Cairo).                            *)

Creates(s) ==
  /\ s \notin made
  /\ made' = made \cup {s} /\ held' = held \cup {s} /\ refs' = Referred(refs, s)
  /\ UNCHANGED <<widget, lost, aborted>>

Destroys(s) ==
  /\ s \in held
  /\ held' = held \ {s} /\ refs' = Released(refs, s)
  /\ UNCHANGED <<widget, made, lost, aborted>>

-----------------------------------------------------------------------------
(* The two ways to create an object.                                       *)

\* createSurface of a MapCanvas: the context refers to the surface drawn to.
createSurface(counts, s) == Referred(counts, s)

\* esmart_image_cairo_new: Cairo gives a surface without references if it cannot
\* create one, and the object is deleted again; if Evas gives no object, the
\* surface is lost.  A MapCanvas goes on with createSurface, which asserts that
\* there is a surface.
esmart_image_cairo_new(o, s, added, isMap) ==
  /\ widget[o].state = "none" /\ s \notin made
  /\ made' = made \cup {s}
  /\ IF s \in Valid /\ added
     THEN /\ widget' = [widget EXCEPT ![o] =
                          [Attached(@, s) EXCEPT !.state = "live",
                                                 !.mCairo = IF isMap THEN s ELSE NoSurface]]
          /\ refs' = IF isMap THEN createSurface(Referred(refs, s), s) ELSE Referred(refs, s)
          /\ UNCHANGED <<lost, aborted>>
     ELSE /\ widget' = [widget EXCEPT ![o].state = "gone"]
          /\ refs' = IF s \in Valid THEN Referred(refs, s) ELSE refs
          /\ lost' = IF s \in Valid THEN lost \cup {s} ELSE lost
          /\ aborted' = isMap
  /\ UNCHANGED held

Cairo(o, s, added) == esmart_image_cairo_new(o, s, added, FALSE)
MapCanvas(o, s, added) == esmart_image_cairo_new(o, s, added, TRUE)

\* esmart_image_cairo_new_from_surface: a surface it refuses stays the client's.
esmart_image_cairo_new_from_surface(o, s, added) ==
  /\ widget[o].state = "none" /\ s \in held
  /\ IF s \in Valid /\ added
     THEN /\ widget' = [widget EXCEPT ![o] = [Attached(@, s) EXCEPT !.state = "live"]]
          /\ held' = held \ {s}
     ELSE /\ widget' = [widget EXCEPT ![o].state = "gone"]
          /\ UNCHANGED held
  /\ UNCHANGED <<refs, made, lost, aborted>>

-----------------------------------------------------------------------------
(* Operations of an object that lives.                                     *)

\* Without a surface: the old one is destroyed, its pixels are still Evas'.
surface_set_none(o) ==
  /\ o \in Live /\ widget[o].mCairo = NoSurface
  /\ widget' = [widget EXCEPT ![o].surface = NoSurface, ![o].died = 0]
  /\ refs' = Released(refs, widget[o].surface)
  /\ UNCHANGED <<made, held, lost, aborted>>

\* Faulty variant: the surface of before is left to nobody.
surface_set_leaking(o, s) ==
  /\ o \in Live /\ widget[o].mCairo = NoSurface /\ s \in held
  /\ IF s \in Valid
     THEN /\ widget' = [widget EXCEPT ![o] = Attached(@, s)]
          /\ held' = held \ {s}
     ELSE UNCHANGED <<widget, held>>
  /\ UNCHANGED <<refs, made, lost, aborted>>

\* esmart_image_cairo_surface_set with a surface of the client's: it is refused,
\* or replaces the one of before, which is destroyed.  (Nobody calls it for a
\* MapCanvas, or with a surface that an object has already.)
esmart_image_cairo_surface_set(o, s) ==
  /\ o \in Live /\ widget[o].mCairo = NoSurface /\ s \in held
  /\ IF s \in Valid
     THEN /\ widget' = [widget EXCEPT ![o] = Attached(@, s)]
          /\ refs' = Released(refs, widget[o].surface)
          /\ held' = held \ {s}
     ELSE UNCHANGED <<widget, refs, held>>
  /\ UNCHANGED <<made, lost, aborted>>

\* evas_object_resize, with the callback _esmart_image_cairo_resized.
Resize(o, size) ==
  /\ o \in Live
  /\ widget' = [widget EXCEPT ![o].size = size,
                              ![o].fill = IF widget[o].resized = 1 THEN size ELSE @]
  /\ UNCHANGED <<refs, made, held, lost, aborted>>

\* esmart_image_cairo_fill_auto_set; without a surface disabling only complains.
esmart_image_cairo_fill_auto_set(o, enable) ==
  /\ o \in Live
  /\ widget' =
       [widget EXCEPT
          ![o].resized = IF enable THEN 1 ELSE 0,
          ![o].fill = CASE enable -> widget[o].size
                        [] ~enable /\ widget[o].surface # NoSurface ->
                                     SizeOf[widget[o].surface]
                        [] OTHER -> @]
  /\ UNCHANGED <<refs, made, held, lost, aborted>>

\* The context of a MapCanvas is destroyed before its object is deleted.
destroySurface(counts, o) == Released(counts, widget[o].mCairo)

\* evas_object_del, with the callback _esmart_image_cairo_died.
evas_object_del(o) ==
  /\ o \in Live
  /\ widget' = [widget EXCEPT ![o].state = "gone", ![o].mCairo = NoSurface,
                              ![o].surface = IF widget[o].died = 1 THEN NoSurface ELSE @]
  /\ refs' = Released(destroySurface(refs, o),
                      IF widget[o].died = 1 THEN widget[o].surface ELSE NoSurface)
  /\ UNCHANGED <<made, held, lost, aborted>>

ImageNext ==
  /\ ~aborted
  /\ \/ \E s \in Surfaces : Creates(s) \/ Destroys(s)
     \/ \E o \in Objects, s \in Surfaces :
          \/ \E added \in BOOLEAN :
               \/ Cairo(o, s, added) \/ MapCanvas(o, s, added)
               \/ esmart_image_cairo_new_from_surface(o, s, added)
          \/ esmart_image_cairo_surface_set(o, s)
     \/ \E o \in Objects :
          \/ surface_set_none(o)
          \/ \E size \in Sizes : Resize(o, size)
          \/ \E enable \in BOOLEAN : esmart_image_cairo_fill_auto_set(o, enable)
          \/ evas_object_del(o)

ImageSpec == ImageInit /\ [][ImageNext]_imageVars

-----------------------------------------------------------------------------
(* Properties.                                                             *)

\* Every variable has its type.
ImageTypeOK ==
  /\ widget \in [Objects -> Object] /\ refs \in [Surfaces -> Int]
  /\ made \subseteq Surfaces /\ held \subseteq made /\ lost \subseteq made
  /\ aborted \in BOOLEAN

OwnerOf(s) == {o \in Objects : widget[o].surface = s}
PainterOf(s) == {o \in Objects : widget[o].mCairo = s}
One(b) == IF b THEN 1 ELSE 0

\* A surface has a reference for every one who knows it, and no more: the object
\* that shows it, the context that draws to it, the client.  So nobody's surface
\* is destroyed under him, Evas reads the pixels of the surface an object has, and
\* none is left over but those that were lost when Evas gave no object.
SurfacesCounted ==
  \A s \in Surfaces :
    /\ refs[s] = One(OwnerOf(s) # {}) + One(PainterOf(s) # {})
                   + One(s \in held) + One(s \in lost)
    /\ \A o \in OwnerOf(s) :
         widget[o].pixels = s /\ widget[o].died = 1 /\ OwnerOf(s) = {o}

\* The image fills the object after every order of resizing, replacing the
\* surface and switching the automatic fill on and off, or it has the size of
\* the surface while the automatic fill is off.
FillFollows ==
  \A o \in Live :
    IF widget[o].resized = 1 THEN widget[o].fill = widget[o].size
    ELSE widget[o].surface # NoSurface =>
           widget[o].fill = SizeOf[widget[o].surface]
=============================================================================
