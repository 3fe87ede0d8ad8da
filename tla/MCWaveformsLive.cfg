SPECIFICATION Spec
CONSTANTS
  video = video  waves = waves
  film = film  curve = curve
  root = root  dialog = dialog  menu = menu
  Width = 3
  View = {video, waves}
  IView = {video}
  Form = {film, curve}
  Popup = {root, dialog, menu}
  Root = root
  Home <- HomeOf
  Area <- Places
  Container <- Boxes
  Rect <- Rects
INVARIANTS
  UsesLive
